---- MODULE Spec2Model ----
(***************************************************************************)
(* Model of the HIST database engine of the Titanium MWS daily runner      *)
(* (src/daily-emailer/DailyEmailRunner.js, updateHistDatabase_ and the     *)
(* helpers it calls), of its performance log                               *)
(* (upsertAndRecomputePerformanceLog_), of the daily routine, the snapshot *)
(* and its analytics, and of the vNext policy contract                     *)
(* (src/daily-emailer/VnextContract.js).                                   *)
(*                                                                         *)
(* Dates are day numbers: a valid "YYYY-MM-DD" string is a natural number, *)
(* string comparison of valid dates is <, addDaysYMD_ is integer addition, *)
(* and an empty / null date is NoDate.  Prices returned by the price feed  *)
(* are in mills (1/1000); a stored price is the text px.toFixed(2),        *)
(* modelled as a number of cents.  Ticker text keeps its case: "a" and "A" *)
(* are different strings that Upper maps to the same key.                  *)
(***************************************************************************)
EXTENDS Integers, Sequences, FiniteSets, TLC

(* ------------------------------------------------------------------ *)
(* Bounds of the model.  The three configuration values are scaled     *)
(* down from the defaults of CONFIG (366 days, 180 days, 5 minutes).   *)
(* ------------------------------------------------------------------ *)
MIN_BACKFILL_DAYS == 5
CHUNK_DAYS == 2
RUNTIME_BUDGET_MS == 1
MaxElapsed == 2
TodaySpan == 1
MaxFaults == 3

FirstToday == MIN_BACKFILL_DAYS + 1
MaxToday == FirstToday + TodaySpan

NoDate == -1

Tickers == {"A", "B"}
TickerOrder == <<"A", "B">>
RequiredSets == {{"A"}, {"B"}, {"A", "B"}}

FeedModes == {"full", "empty", "partial", "wide", "zero"}
\* livePrices the batch quote may return: NominalLive, or a quote missing
\* (IFERROR gives 0), below half a cent, or negative
NominalLive == [t \in Tickers |-> IF t = "A" THEN 1500 ELSE 2500]
LiveAnswers ==
  {NominalLive} \cup {[NominalLive EXCEPT ![t] = p] : t \in Tickers, p \in {0, 4, -1500}}

VARIABLES
  hist,        \* persisted HIST CSV: the data rows below the header
  cursor,      \* Script Properties CURSOR_<ticker>: a date, or NoDate when absent
  today,       \* TODAY of the current (or last) invocation
  required,    \* requiredTickers of the current (or last) invocation
  pc,          \* "idle" between invocations, "backfill" inside one
  map,         \* the in-memory dedupe map, in insertion order
  idx,         \* position of the backfill loop in requiredTickers
  elapsed,     \* Date.now() - startTime
  purged,      \* purgedTickers of the current (or last) invocation
  unfinished,  \* unfinishedTickers of the current (or last) invocation
  live,        \* livePrices returned to the last completed invocation
  outcome,     \* how the last invocation ended: "none", "ok", "fatal", "error"
  requests,    \* range requests issued by the current (or last) invocation
  hist0,       \* history: hist as the current (or last) invocation found it
  cursor0,     \* history: cursor as the current (or last) invocation found it
  chain,       \* history: per ticker, the range requests issued since Init
  clean,       \* history: per ticker, the backfill ran undisturbed since Init
  repeat,      \* history: this invocation repeats the previous one's inputs
  finished,    \* history: per ticker, an invocation of this day deleted the
               \* cursor of its backfill (lines 252 and 264)
  faults,      \* how often the environment has left its nominal behaviour
  ledger,      \* persisted performance log CSV: the data rows below the header
  lcall,       \* history: the arguments of the last ledger call
  lout,        \* how the last ledger call ended: "none", "ok", "error"
  mail,        \* the email the last run of the routine sent: "none", "daily", "fatal"
  alerts,      \* the alerts array of the last run of the routine
  charts,      \* the last run of the routine reached the chart generation
  args,        \* the arguments of the function under analysis
  ret,         \* what the function under analysis returned
  done         \* the function under analysis has been applied

histVars == <<hist, cursor, today, required, pc, map, idx, elapsed, purged,
              unfinished, live, outcome, requests, hist0, cursor0, chain, clean,
              repeat, finished, faults>>

ledgerVars == <<ledger, lcall, lout>>

reportVars == <<mail, alerts, charts>>

callVars == <<args, ret, done>>

vars == <<histVars, ledgerVars, reportVars, callVars>>

(* ------------------------------------------------------------------ *)
(* Helpers                                                             *)
(* ------------------------------------------------------------------ *)

\* String(x).trim().toUpperCase() on the ticker texts of the model
Upper(s) == CASE s = "a" -> "A" [] s = "b" -> "B" [] OTHER -> s

\* the order of toUpperCase'd tickers under localeCompare / Array.sort
TickerRank(T) == CASE T = "A" -> 1 [] T = "B" -> 2 [] OTHER -> 0

\* /^\d{4}-\d{2}-\d{2}$/.test(s)
IsYMD(d) == d \in Nat

\* addDaysYMD_(ymd, deltaDays, tz)
addDaysYMD_(ymd, deltaDays) == ymd + deltaDays

\* Number.prototype.toFixed(2) of a price in mills, as cents (round half up)
ToFixed2(mills) == (mills + 5) \div 10

\* [...requiredSet].sort()
SortedTickers(S) == SelectSeq(TickerOrder, LAMBDA t : t \in S)

Row(d, t, p) == [d |-> d, t |-> t, p |-> p]

\* mutant: every write is pushed, an existing key is not replaced
MapPut_Push(m, d, T, row) == Append(m, [k |-> <<d, T>>, row |-> row])

\* map[`${d}|${t}`] = row: an existing key keeps its position
MapPut(m, d, T, row) ==
  IF \E i \in 1..Len(m) : m[i].k = <<d, T>>
  THEN [i \in 1..Len(m) |-> IF m[i].k = <<d, T>> THEN [k |-> <<d, T>>, row |-> row] ELSE m[i]]
  ELSE Append(m, [k |-> <<d, T>>, row |-> row])

\* the dedupe map of lines 211-218: rows without date or ticker are skipped
RECURSIVE BuildMap(_, _)
BuildMap(rows, m) ==
  IF rows = <<>> THEN m
  ELSE LET r == Head(rows)
           d == r.d
           T == Upper(r.t)
       IN BuildMap(Tail(rows), IF d = NoDate \/ T = "" THEN m ELSE MapPut(m, d, T, r))

MapDates(m, t) == {m[i].k[1] : i \in {j \in 1..Len(m) : m[j].k[2] = t}}

\* mutant: the latest date is taken for the earliest
MinHave_Max(m, t) ==
  IF MapDates(m, t) = {} THEN NoDate
  ELSE CHOOSE d \in MapDates(m, t) : \A e \in MapDates(m, t) : d >= e

\* mutant: the earliest date is never found
MinHave_None(m, t) == NoDate

\* bounds[t].min of lines 220-228 (NoDate when the ticker has no row)
MinHave(m, t) ==
  IF MapDates(m, t) = {} THEN NoDate
  ELSE CHOOSE d \in MapDates(m, t) : \A e \in MapDates(m, t) : d <= e

RequiredStart(td) == addDaysYMD_(td, -MIN_BACKFILL_DAYS)

(* ------------------------------------------------------------------ *)
(* Price feed (GOOGLEFINANCE through the scratch sheet)                *)
(* ------------------------------------------------------------------ *)

\* the price the range feed has for (ticker, date), in mills
RangePrice(t, d) == 10 * d + (IF t = "A" THEN 1004 ELSE 2006)

\* parseFloat(v[1]) of a returned row, in mills: the feed's price, or 0 when
\* the sheet holds a zero in the price column
FeedPrice(mode, t, d) == IF mode = "zero" THEN 0 ELSE RangePrice(t, d)

\* the dates of the data rows the sheet holds after the range formula:
\* the whole range, nothing (failed fetch), only part of the range, or
\* the range and the days around it
AnswerDates(mode, chunkStart, chunkEnd) ==
  CASE mode \in {"full", "zero"} -> chunkStart..chunkEnd
    [] mode = "empty" -> {}
    [] mode = "partial" -> {chunkEnd}
    [] mode = "wide" -> (chunkStart - 1)..(chunkEnd + 1)

\* the forEach of lines 310-325 over the returned rows dated lo..hi
RECURSIVE IngestRows(_, _, _, _, _, _, _, _)
IngestRows(m, n, ticker, dates, lo, hi, win, mode) ==
  IF lo > hi THEN [map |-> m, ingested |-> n]
  ELSE IF lo \notin dates \/ lo < win[1] \/ lo >= win[2]
       THEN IngestRows(m, n, ticker, dates, lo + 1, hi, win, mode)
       ELSE IngestRows(MapPut(m, lo, ticker,
                              Row(lo, ticker, ToFixed2(FeedPrice(mode, ticker, lo)))),
                       n + 1, ticker, dates, lo + 1, hi, win, mode)

\* mutant: every returned point is merged, whatever its date
ingestBackfillChunk_NoWindow(m, ticker, chunkStart, chunkEnd, requiredStart, td, mode) ==
  LET dates == AnswerDates(mode, chunkStart, chunkEnd)
  IN IF dates = {} THEN [map |-> m, ingested |-> 0]
     ELSE IngestRows(m, 0, ticker, dates, chunkStart - 1, chunkEnd + 1,
                     <<chunkStart - 1, chunkEnd + 2>>, mode)

ingestBackfillChunk_(m, ticker, chunkStart, chunkEnd, requiredStart, td, mode) ==
  LET dates == AnswerDates(mode, chunkStart, chunkEnd)
  IN IF dates = {} THEN [map |-> m, ingested |-> 0]
     ELSE IngestRows(m, 0, ticker, dates, chunkStart - 1, chunkEnd + 1,
                     <<requiredStart, td>>, mode)

(* ------------------------------------------------------------------ *)
(* updateHistDatabase_                                                 *)
(* ------------------------------------------------------------------ *)

\* existingTickers of lines 196-199
ExistingTickers(rows) == {Upper(rows[i].t) : i \in 1..Len(rows)} \ {""}

\* purgedTickers of line 202
PurgedTickers(rows, req) == ExistingTickers(rows) \ req

\* mutant: the row filter forgets toUpperCase
PurgeRows_CaseSlip(rows, req) ==
  IF PurgedTickers(rows, req) = {} THEN rows
  ELSE SelectSeq(rows, LAMBDA r : r.t \notin PurgedTickers(rows, req))

\* the purge of lines 205-209 on the rows
PurgeRows(rows, req) ==
  IF PurgedTickers(rows, req) = {} THEN rows
  ELSE SelectSeq(rows, LAMBDA r : Upper(r.t) \in req)

\* the purge of line 208 on the cursors
PurgeCursors(cur, rows, req) ==
  [t \in Tickers |-> IF t \in PurgedTickers(rows, req) THEN NoDate ELSE cur[t]]

\* mutant: without data or cursor the range ends today
ChunkEnd_Today(cur, minHave, td) ==
  IF cur # NoDate /\ IsYMD(cur) THEN cur
  ELSE IF minHave # NoDate /\ IsYMD(minHave) THEN addDaysYMD_(minHave, -1)
  ELSE td

\* mutant: the stored coverage takes precedence over the cursor
ChunkEnd_CoverageFirst(cur, minHave, td) ==
  IF minHave # NoDate /\ IsYMD(minHave) THEN addDaysYMD_(minHave, -1)
  ELSE IF cur # NoDate /\ IsYMD(cur) THEN cur
  ELSE addDaysYMD_(td, -1)

\* chunkEnd of lines 247-250
ChunkEnd(cur, minHave, td) ==
  IF cur # NoDate /\ IsYMD(cur) THEN cur
  ELSE IF minHave # NoDate /\ IsYMD(minHave) THEN addDaysYMD_(minHave, -1)
  ELSE addDaysYMD_(td, -1)

\* mutant: the tentative start is not clipped at requiredStart
ChunkStart_NoClip(chunkEnd, requiredStart) == addDaysYMD_(chunkEnd, -(CHUNK_DAYS - 1))

\* chunkStart of lines 254-255
ChunkStart(chunkEnd, requiredStart) ==
  LET tentativeStart == addDaysYMD_(chunkEnd, -(CHUNK_DAYS - 1))
  IN IF tentativeStart < requiredStart THEN requiredStart ELSE tentativeStart

\* mutant: the next boundary is taken a day after chunkStart instead of before
NextCursor_SignSlip(chunkStart, requiredStart) ==
  LET nextEnd == addDaysYMD_(chunkStart, 1)
  IN IF nextEnd >= requiredStart THEN nextEnd ELSE NoDate

\* mutant: a boundary on requiredStart itself is not persisted
NextCursor_Strict(chunkStart, requiredStart) ==
  LET nextEnd == addDaysYMD_(chunkStart, -1)
  IN IF nextEnd > requiredStart THEN nextEnd ELSE NoDate

\* the cursor written by lines 262-264 (NoDate: deleteProperty)
NextCursor(chunkStart, requiredStart) ==
  LET nextEnd == addDaysYMD_(chunkStart, -1)
  IN IF nextEnd >= requiredStart THEN nextEnd ELSE NoDate

\* mutant: the deadline test never fires
OverBudget_Never(now) == FALSE

\* the deadline test of line 238
OverBudget(now) == now > RUNTIME_BUDGET_MS

\* mutant: the quote is merged without the test p > 0
RECURSIVE MergeLive_NoGuard(_, _, _, _)
MergeLive_NoGuard(m, ts, lv, td) ==
  IF ts = <<>> THEN m
  ELSE MergeLive_NoGuard(MapPut(m, td, Head(ts), Row(td, Head(ts), ToFixed2(lv[Head(ts)]))),
                         Tail(ts), lv, td)

\* the live-quote merge of lines 270-281
RECURSIVE MergeLive(_, _, _, _)
MergeLive(m, ts, lv, td) ==
  IF ts = <<>> THEN m
  ELSE LET t == Head(ts)
           p == lv[t]
       IN MergeLive(IF p > 0 THEN MapPut(m, td, t, Row(td, t, ToFixed2(p))) ELSE m,
                    Tail(ts), lv, td)

\* mutant: the comparator looks at the date only
CompareRows_DateOnly(a, b) == a.d - b.d

\* the comparator of lines 283-289: negative, zero or positive
CompareRows(a, b) ==
  IF a.d # b.d THEN a.d - b.d
  ELSE TickerRank(Upper(a.t)) - TickerRank(Upper(b.t))

RECURSIVE InsertSorted(_, _)
InsertSorted(s, r) ==
  IF s = <<>> THEN <<r>>
  ELSE IF CompareRows(r, Head(s)) < 0 THEN <<r>> \o s
  ELSE <<Head(s)>> \o InsertSorted(Tail(s), r)

\* Array.prototype.sort with that comparator (stable)
RECURSIVE SortRows(_, _)
SortRows(rows, acc) ==
  IF rows = <<>> THEN acc ELSE SortRows(Tail(rows), InsertSorted(acc, Head(rows)))

\* finalRows: Object.values(map) sorted
FinalRows(m) == SortRows([i \in 1..Len(m) |-> m[i].row], <<>>)

(* ------------------------------------------------------------------ *)
(* State machine                                                       *)
(* ------------------------------------------------------------------ *)

\* HIST files the first invocation may find: one recent row; rows that
\* differ only in the case of the ticker, and a row without a date; a
\* ticker with old history next to one without any; a hand-made file with a
\* row dated after the day of the first invocation
SeedStores ==
  { << Row(FirstToday - 1, "A", 100) >>,
    << Row(FirstToday - 1, "b", 100), Row(FirstToday - 1, "A", 100),
       Row(FirstToday - 1, "B", 200), Row(NoDate, "A", 100) >>,
    << Row(0, "A", 100), Row(FirstToday - 2, "A", 100) >>,
    << Row(FirstToday - 1, "A", 100), Row(FirstToday + 1, "B", 200) >> }

NoCursors == [t \in Tickers |-> NoDate]
NoLive == [t \in Tickers |-> 0]
NoCall == [date |-> NoDate, chartStart |-> NoDate, pv |-> 0, px |-> <<>>,
           isNew |-> FALSE, follows |-> FALSE]

StoresInit ==
  /\ hist \in SeedStores
  /\ cursor = NoCursors
  /\ today = FirstToday
  /\ required = {}
  /\ pc = "idle"
  /\ map = <<>>
  /\ idx = 1
  /\ elapsed = 0
  /\ purged = {}
  /\ unfinished = {}
  /\ live = NoLive
  /\ outcome = "none"
  /\ requests = {}
  /\ hist0 = hist
  /\ cursor0 = cursor
  /\ chain = [t \in Tickers |-> <<>>]
  /\ clean = [t \in Tickers |-> t \notin ExistingTickers(hist)]
  /\ repeat = FALSE
  /\ finished = [t \in Tickers |-> FALSE]
  /\ faults = 0
  /\ ledger = <<>>
  /\ lcall = NoCall
  /\ lout = "none"
  /\ mail = "none"
  /\ alerts = {}
  /\ charts = FALSE

Init ==
  /\ StoresInit
  /\ args = <<>>
  /\ ret = <<>>
  /\ done = FALSE

\* every range request of the invocation was answered with the whole range
FullRun == \A r \in requests : r.mode = "full"

\* mutant: the table is never found empty or malformed
Malformed_Never(rows) == FALSE

\* line 188: !parsed || parsed.length < 2, on the data rows below the header
Malformed(rows) == Len(rows) < 1

\* lines 185-188: an empty or header-only HIST file is fatal
BeginFatal(td, req) ==
  /\ pc = "idle"
  /\ Malformed(hist)
  /\ today' = td
  /\ required' = req
  /\ outcome' = "fatal"
  /\ purged' = {}
  /\ unfinished' = {}
  /\ requests' = {}
  /\ hist0' = hist
  /\ cursor0' = cursor
  /\ clean' = [t \in Tickers |-> FALSE]
  /\ chain' = [t \in Tickers |-> <<>>]
  /\ repeat' = FALSE
  /\ finished' = [t \in Tickers |-> finished[t] /\ td = today]
  /\ UNCHANGED <<hist, cursor, pc, map, idx, elapsed, live>>

\* lines 181-234: read, purge, dedupe; the backfill loop is entered
Begin(td, req) ==
  /\ pc = "idle"
  /\ ~Malformed(hist)
  /\ today' = td
  /\ required' = req
  /\ purged' = PurgedTickers(hist, req)
  /\ cursor' = PurgeCursors(cursor, hist, req)
  /\ map' = BuildMap(PurgeRows(hist, req), <<>>)
  /\ idx' = 1
  /\ elapsed' = 0
  /\ unfinished' = {}
  /\ requests' = {}
  /\ pc' = "backfill"
  /\ hist0' = hist
  /\ cursor0' = cursor
  /\ clean' = [t \in Tickers |-> clean[t] /\ td = today /\ t \in req]
  /\ chain' = [t \in Tickers |-> IF clean[t] /\ td = today /\ t \in req THEN chain[t] ELSE <<>>]
  /\ repeat' = (outcome = "ok" /\ td = today /\ req = required /\ FullRun)
  /\ finished' = [t \in Tickers |-> finished[t] /\ td = today /\ t \in req]
  /\ UNCHANGED <<hist, live, outcome>>

\* lines 237-265: one iteration of the backfill loop
BackfillStep(dt, mode) ==
  /\ pc = "backfill"
  /\ idx <= Len(SortedTickers(required))
  /\ LET t == SortedTickers(required)[idx]
         now == IF elapsed + dt > MaxElapsed THEN MaxElapsed ELSE elapsed + dt
         requiredStart == RequiredStart(today)
         minHave == MinHave(map, t)
         needsYear == (minHave = NoDate \/ minHave > requiredStart)
         chunkEnd == ChunkEnd(cursor[t], minHave, today)
         chunkStart == ChunkStart(chunkEnd, requiredStart)
         res == ingestBackfillChunk_(map, t, chunkStart, chunkEnd, requiredStart, today, mode)
     IN /\ elapsed' = now
        /\ idx' = idx + 1
        /\ IF OverBudget(now)
           THEN /\ unfinished' = unfinished \cup {t}
                /\ UNCHANGED <<cursor, map, requests, chain, clean, repeat, finished>>
           ELSE IF ~needsYear
           THEN UNCHANGED <<cursor, map, requests, chain, clean, repeat, finished,
                            unfinished>>
           ELSE IF chunkEnd < requiredStart
           THEN /\ cursor' = [cursor EXCEPT ![t] = NoDate]
                /\ finished' = [finished EXCEPT ![t] = TRUE]
                /\ UNCHANGED <<map, requests, chain, clean, repeat, unfinished>>
           ELSE /\ map' = res.map
                /\ cursor' = [cursor EXCEPT ![t] = NextCursor(chunkStart, requiredStart)]
                /\ requests' = requests \cup
                     {[t |-> t, cs |-> chunkStart, ce |-> chunkEnd,
                       n |-> res.ingested, mode |-> mode]}
                /\ chain' = [chain EXCEPT ![t] =
                     IF clean[t] /\ mode = "full" THEN Append(@, <<chunkStart, chunkEnd>>)
                     ELSE <<>>]
                /\ clean' = [clean EXCEPT ![t] = @ /\ mode = "full"]
                /\ repeat' = (repeat /\ mode = "full")
                /\ finished' = [finished EXCEPT
                     ![t] = NextCursor(chunkStart, requiredStart) = NoDate]
                /\ UNCHANGED unfinished
  /\ UNCHANGED <<hist, today, required, pc, purged, live, outcome, hist0, cursor0>>

\* a Spreadsheet or Drive service call of the invocation throws (lines
\* 298-306, 820-834, 291): updateHistDatabase_ ends without reaching its write
Abort ==
  /\ pc = "backfill"
  /\ pc' = "idle"
  /\ outcome' = "error"
  /\ clean' = [t \in Tickers |-> FALSE]
  /\ chain' = [t \in Tickers |-> <<>>]
  /\ repeat' = FALSE
  /\ UNCHANGED <<hist, cursor, today, required, map, idx, elapsed, purged,
                 unfinished, live, requests, hist0, cursor0, finished>>

\* lines 267-293: live quotes, sort, write, return
Finish(lv) ==
  /\ pc = "backfill"
  /\ idx > Len(SortedTickers(required))
  /\ hist' = FinalRows(MergeLive(map, SortedTickers(required), lv, today))
  /\ live' = lv
  /\ repeat' = (repeat /\ lv = live)
  /\ pc' = "idle"
  /\ outcome' = "ok"
  /\ UNCHANGED <<cursor, today, required, map, idx, elapsed, purged, unfinished,
                 requests, hist0, cursor0, chain, clean, finished>>

\* what a departure from the nominal environment costs
Cost(nominal) == IF nominal THEN 0 ELSE 1

\* the steps of the routine in an environment that has k departures to spend
Step(k) ==
  \/ \E td \in {today, today + 1}, req \in RequiredSets :
       /\ td <= MaxToday
       /\ faults' = faults + Cost(td = today) + Cost(required \in {{}, req})
       /\ faults' <= k
       /\ BeginFatal(td, req)
       /\ UNCHANGED <<ledgerVars, reportVars, callVars>>
  \/ \E td \in {today, today + 1}, req \in RequiredSets :
       /\ td <= MaxToday
       /\ faults' = faults + Cost(td = today) + Cost(required \in {{}, req})
       /\ faults' <= k
       /\ Begin(td, req)
       /\ UNCHANGED <<ledgerVars, reportVars, callVars>>
  \/ \E dt \in 0..MaxElapsed, mode \in FeedModes :
       /\ faults' = faults + Cost(dt = 0) + Cost(mode = "full")
       /\ faults' <= k
       /\ BackfillStep(dt, mode)
       /\ UNCHANGED <<ledgerVars, reportVars, callVars>>
  \/ /\ faults' = faults + 1
     /\ faults' <= k
     /\ Abort
     /\ UNCHANGED <<ledgerVars, reportVars, callVars>>
  \/ \E lv \in LiveAnswers :
       /\ faults' = faults + Cost(lv = NominalLive)
       /\ faults' <= k
       /\ Finish([t \in Tickers |-> IF t \in required THEN lv[t] ELSE 0])
       /\ UNCHANGED <<ledgerVars, reportVars, callVars>>

Next == Step(MaxFaults)

Spec == Init /\ [][Next]_vars

(* ------------------------------------------------------------------ *)
(* Performance log (upsertAndRecomputePerformanceLog_)                 *)
(*                                                                     *)
(* A value cell holds the text of Number(x).toFixed(2): a number of    *)
(* cents, or NaN.  A percentage cell holds the text of x.toFixed(4): a *)
(* number of 1/10000, or the text N/A.  The ratios are computed        *)
(* exactly; toFixed rounds the magnitude half up.                      *)
(* ------------------------------------------------------------------ *)
MaxLedgerDay == 3

NaN == -1000000000
NA == -999999999

\* benches: the active benchmarks of the policy
Benches == <<"VTI", "QQQ">>

LedgerDays == 1..MaxLedgerDay
\* chart_start_date of the policy: absent or not a date, or a date after the
\* first day
ChartStarts == {NoDate, MaxLedgerDay - 1}
\* portfolioVal and benchPrices of a call, in mills: two valid quotes, a value
\* that is not a number, a value below half a cent, a price of zero, a price
\* that is not a number
CallValues ==
  { [pv |-> 100000, px |-> <<50000, 200000>>],
    [pv |-> 105000, px |-> <<53000, 190000>>],
    [pv |-> NaN, px |-> <<50000, 200000>>],
    [pv |-> 4, px |-> <<50000, 200000>>],
    [pv |-> 100000, px |-> <<50000, 0>>],
    [pv |-> 100000, px |-> <<NaN, 200000>>] }

isFinite(x) == x # NaN

\* parseFloat of a cell: the text N/A is not a number
parseFloat(c) == IF c = NA THEN NaN ELSE c

\* Number(x).toFixed(2) of a value in mills, as the cell text
ToFixed2Text(x) == IF ~isFinite(x) THEN NaN ELSE ToFixed2(x)

\* (n / d) rounded to an integer, the magnitude half up (d # 0)
RoundDiv(n, d) ==
  LET an == IF n < 0 THEN -n ELSE n
      ad == IF d < 0 THEN -d ELSE d
      q == (2 * an + ad) \div (2 * ad)
  IN IF (n < 0) # (d < 0) THEN -q ELSE q

\* newRow of lines 633-636; the percentage cells are filled by the recomputation
NewRow(dateStr, portfolioVal, benchPrices) ==
  [date |-> dateStr,
   pv |-> ToFixed2Text(portfolioVal),
   px |-> [i \in 1..Len(Benches) |-> ToFixed2Text(benchPrices[i])],
   portPct |-> NA,
   pct |-> [i \in 1..Len(Benches) |-> NA],
   diff |-> [i \in 1..Len(Benches) |-> NA]]

\* mutant: the rows of the same date are kept
DedupeByDate_Keep(data, dateStr) == data

\* line 631: data.filter(r => String(r[0]) !== dateStr)
DedupeByDate(data, dateStr) == SelectSeq(data, LAMBDA r : r.date # dateStr)

RECURSIVE InsertByDate(_, _)
InsertByDate(s, r) ==
  IF s = <<>> THEN <<r>>
  ELSE IF r.date < Head(s).date THEN <<r>> \o s
  ELSE <<Head(s)>> \o InsertByDate(Tail(s), r)

\* line 639: data.sort by date (stable)
RECURSIVE SortByDate(_, _)
SortByDate(data, acc) ==
  IF data = <<>> THEN acc ELSE SortByDate(Tail(data), InsertByDate(acc, Head(data)))

\* lines 630-639: the data rows after the upsert
Upserted(rows, dateStr, portfolioVal, benchPrices) ==
  SortByDate(Append(DedupeByDate(rows, dateStr),
                    NewRow(dateStr, portfolioVal, benchPrices)), <<>>)

\* mutant: the first row is the base whatever chart_start_date says
BaseIndex_First(data, chartStart) == 1

\* mutant: without a row for chart_start_date the last row is the base
BaseIndex_Last(data, chartStart) ==
  IF IsYMD(chartStart) /\ \E i \in 1..Len(data) : data[i].date = chartStart
  THEN CHOOSE i \in 1..Len(data) :
         data[i].date = chartStart /\ \A j \in 1..(i - 1) : data[j].date # chartStart
  ELSE Len(data)

\* baseIndex of lines 641-643, counted from 1
BaseIndex(data, chartStart) ==
  IF IsYMD(chartStart) /\ \E i \in 1..Len(data) : data[i].date = chartStart
  THEN CHOOSE i \in 1..Len(data) :
         data[i].date = chartStart /\ \A j \in 1..(i - 1) : data[j].date # chartStart
  ELSE 1

\* mutant: the base row is never found invalid
BaseValid_Always(data, baseIndex) == TRUE

\* lines 646-650: the base row's value and prices are numbers above zero
BaseValid(data, baseIndex) ==
  LET basePV == parseFloat(data[baseIndex].pv)
  IN /\ isFinite(basePV) /\ basePV > 0
     /\ \A i \in 1..Len(Benches) :
          LET x == parseFloat(data[baseIndex].px[i]) IN isFinite(x) /\ x > 0

\* mutant: no row is treated as lying before the base row
Masked_Never(ri, baseIndex) == FALSE

\* ri < baseIndex of lines 662, 667, 671
Masked(ri, baseIndex) == ri < baseIndex

\* (isFinite(v) && v > 0) ? ((v / base) - 1) : NaN is a finite number
RatioFinite(v, base) == isFinite(v) /\ v > 0 /\ isFinite(base) /\ base # 0

\* the cell of lines 660-662 and 665-667
PctCell(ri, baseIndex, v, base) ==
  IF Masked(ri, baseIndex) THEN NA
  ELSE IF RatioFinite(v, base) THEN RoundDiv((v - base) * 10000, base)
  ELSE NA

\* the cell of lines 671-674: pPort is the ratio itself, pB the rounded cell
DiffCell(ri, baseIndex, pv, basePV, pctCell) ==
  IF Masked(ri, baseIndex) THEN NA
  ELSE LET pB == parseFloat(pctCell)
       IN IF ~RatioFinite(pv, basePV) \/ ~isFinite(pB) THEN NA
          ELSE RoundDiv((pv - basePV) * 10000 - pB * basePV, basePV)

\* out of lines 656-678
Recompute(data, baseIndex) ==
  LET basePV == parseFloat(data[baseIndex].pv)
      baseB == [i \in 1..Len(Benches) |-> parseFloat(data[baseIndex].px[i])]
  IN [ri \in 1..Len(data) |->
        LET row == data[ri]
            pv == parseFloat(row.pv)
            pct == [i \in 1..Len(Benches) |->
                      PctCell(ri, baseIndex, parseFloat(row.px[i]), baseB[i])]
        IN [date |-> row.date, pv |-> row.pv, px |-> row.px,
            portPct |-> PctCell(ri, baseIndex, pv, basePV),
            pct |-> pct,
            diff |-> [i \in 1..Len(Benches) |->
                        DiffCell(ri, baseIndex, pv, basePV, pct[i])]]]

\* history: the arguments of the call, whether its date is new to the ledger,
\* and whether it follows a returning call made with the same chart_start_date
CallRecord(dateStr, portfolioVal, benchPrices, chartStart) ==
  [date |-> dateStr, chartStart |-> chartStart, pv |-> portfolioVal, px |-> benchPrices,
   isNew |-> \A i \in 1..Len(ledger) : ledger[i].date # dateStr,
   follows |-> (lout = "ok" /\ lcall.chartStart = chartStart)]

\* the call returns: the recomputed rows are written (line 680)
UpsertOk(dateStr, portfolioVal, benchPrices, chartStart) ==
  LET data == Upserted(ledger, dateStr, portfolioVal, benchPrices)
      baseIndex == BaseIndex(data, chartStart)
  IN /\ BaseValid(data, baseIndex)
     /\ ledger' = Recompute(data, baseIndex)
     /\ lcall' = CallRecord(dateStr, portfolioVal, benchPrices, chartStart)
     /\ lout' = "ok"

\* the call throws at line 647 or 650: nothing is written
UpsertThrow(dateStr, portfolioVal, benchPrices, chartStart) ==
  LET data == Upserted(ledger, dateStr, portfolioVal, benchPrices)
      baseIndex == BaseIndex(data, chartStart)
  IN /\ ~BaseValid(data, baseIndex)
     /\ lcall' = CallRecord(dateStr, portfolioVal, benchPrices, chartStart)
     /\ lout' = "error"
     /\ UNCHANGED ledger

PerfLogNext ==
  \/ \E d \in LedgerDays, v \in CallValues, c \in ChartStarts :
       /\ UpsertOk(d, v.pv, v.px, c)
       /\ UNCHANGED <<histVars, reportVars, callVars>>
  \/ \E d \in LedgerDays, v \in CallValues, c \in ChartStarts :
       /\ UpsertThrow(d, v.pv, v.px, c)
       /\ UNCHANGED <<histVars, reportVars, callVars>>

\* the performance log on its own: the HIST engine stays idle on one store
PerfLogInit == Init /\ hist = <<Row(FirstToday - 1, "A", 100)>>

PerfLogSpec == PerfLogInit /\ [][PerfLogNext]_vars

(* ------------------------------------------------------------------ *)
(* Vocabulary of the properties                                        *)
(* ------------------------------------------------------------------ *)

Completed == pc = "idle" /\ outcome = "ok"

\* the range requests issued by the step for ticker t
IssuedFor(t) == {r \in requests' \ requests : r.t = t}

\* the indices of the rows of store s that belong to (date d, ticker T)
RowsAt(s, d, T) == {i \in 1..Len(s) : s[i].d = d /\ Upper(s[i].t) = T}

\* the dates for which store s has a row of ticker T
DatesOf(s, T) == {s[i].d : i \in {j \in 1..Len(s) : Upper(s[j].t) = T /\ s[j].d # NoDate}}

\* the dates a range request merged: returned, and within [requiredStart, today)
MergedDates(r) ==
  {d \in AnswerDates(r.mode, r.cs, r.ce) : d >= today - MIN_BACKFILL_DAYS /\ d < today}

(* ------------------------------------------------------------------ *)
(* C1                                                                  *)
(* ------------------------------------------------------------------ *)

\* C1: while a ticker's cursor stays persisted, every step leaves it alone or,
\* when it issues the ticker's range request and writes the cursor, writes a
\* date strictly earlier than the one persisted before.
C1_CursorStrictlyDecreases ==
  [][\A t \in Tickers :
       (cursor[t] # NoDate /\ cursor'[t] # NoDate) =>
         \/ cursor'[t] < cursor[t]
         \/ cursor'[t] = cursor[t] /\ IssuedFor(t) = {}]_vars

\* an invocation found a cursor and wrote an earlier one
C1_Witness ==
  \E t \in Tickers :
    /\ cursor0[t] # NoDate /\ cursor[t] # NoDate /\ cursor[t] < cursor0[t]
    /\ \E r \in requests : r.t = t

(* ------------------------------------------------------------------ *)
(* C2                                                                  *)
(* ------------------------------------------------------------------ *)

\* C2: after a completed invocation, a ticker whose range request ingested
\* zero rows has the cursor the invocation found.
C2_EmptyFetchKeepsCursor ==
  Completed => \A r \in requests : r.n = 0 => cursor[r.t] = cursor0[r.t]

(* ------------------------------------------------------------------ *)
(* C3                                                                  *)
(* ------------------------------------------------------------------ *)

\* C3: an invocation that ends with an error before its store write leaves
\* the persisted store and every persisted cursor as it found them.
C3_AbortChangesNothing ==
  outcome = "error" => (hist = hist0 /\ cursor = cursor0)

(* ------------------------------------------------------------------ *)
(* C4                                                                  *)
(* ------------------------------------------------------------------ *)

\* C4: after a completed invocation every row of the persisted store has a
\* ticker that, upper-cased, is in the required set of that invocation.
C4_PurgeInvariant ==
  Completed => \A i \in 1..Len(hist) : Upper(hist[i].t) \in required

\* a completed invocation purged a ticker that the store held in lower case
C4_Witness ==
  /\ Completed
  /\ "B" \in purged
  /\ \E i \in 1..Len(hist0) : hist0[i].t = "b"

(* ------------------------------------------------------------------ *)
(* C5                                                                  *)
(* ------------------------------------------------------------------ *)

\* C5: after a completed invocation no ticker outside the required set has a
\* persisted cursor.
C5_NoCursorOutsideRequired ==
  Completed => \A t \in Tickers \ required : cursor[t] = NoDate

(* ------------------------------------------------------------------ *)
(* C6                                                                  *)
(* ------------------------------------------------------------------ *)

\* the price the last write to (d, T) carried: the live quote, else the point
\* a range request merged, else the last row the store held before
LastWrite(d, T) ==
  IF d = today /\ live[T] > 0 THEN ToFixed2(live[T])
  ELSE IF \E r \in requests : r.t = T /\ d \in MergedDates(r)
       THEN LET r == CHOOSE q \in requests : q.t = T /\ d \in MergedDates(q)
            IN ToFixed2(FeedPrice(r.mode, T, d))
  ELSE LET is == RowsAt(hist0, d, T)
       IN hist0[CHOOSE i \in is : \A j \in is : j <= i].p

\* the (date, ticker) pairs some source wrote
WrittenKeys ==
  LET kept == {<<hist0[i].d, Upper(hist0[i].t)>> :
                 i \in {j \in 1..Len(hist0) :
                          hist0[j].d # NoDate /\ Upper(hist0[j].t) \in required}}
      merged == {k \in (0..today) \X Tickers :
                   \E r \in requests : r.t = k[2] /\ k[1] \in MergedDates(r)}
      quoted == {<<today, t>> : t \in {u \in required : live[u] > 0}}
  IN kept \cup merged \cup quoted

\* C6: after a completed invocation the persisted store holds exactly one row
\* for every (date, ticker) pair that was written, and that row carries the
\* price of the last write.
C6_OneRowLastWriteWins ==
  Completed =>
    /\ \A i, j \in 1..Len(hist) :
         (hist[i].d = hist[j].d /\ Upper(hist[i].t) = Upper(hist[j].t)) => i = j
    /\ {<<hist[i].d, Upper(hist[i].t)>> : i \in 1..Len(hist)} = WrittenKeys
    /\ \A i \in 1..Len(hist) : hist[i].p = LastWrite(hist[i].d, Upper(hist[i].t))

\* a completed invocation merged a backfilled point over an existing row that
\* carried another price
C6_Witness ==
  /\ Completed
  /\ \E r \in requests, i \in 1..Len(hist0) :
       /\ Upper(hist0[i].t) = r.t
       /\ hist0[i].d \in MergedDates(r)
       /\ hist0[i].p # ToFixed2(FeedPrice(r.mode, r.t, hist0[i].d))

(* ------------------------------------------------------------------ *)
(* C7                                                                  *)
(* ------------------------------------------------------------------ *)

\* C7: an invocation that repeats the previous one (same today, same required
\* tickers, same answers of the price feed) writes the store it found.
C7_RerunWritesSameStore ==
  (Completed /\ repeat) => hist = hist0

\* every required ticker had a row dated at or before requiredStart when the
\* invocation began
CompleteAtStart ==
  \A t \in required :
    \E i \in 1..Len(hist0) :
      /\ Upper(hist0[i].t) = t
      /\ hist0[i].d # NoDate
      /\ hist0[i].d <= today - MIN_BACKFILL_DAYS

\* C7 (amended): an invocation that repeats the previous one writes the store
\* it found, provided the backfill of every required ticker was complete when
\* it began.
C7_RerunWritesSameStoreWhenComplete ==
  (Completed /\ repeat /\ CompleteAtStart) => hist = hist0

\* a completed repeat of an invocation whose tickers were all complete
C7_Witness ==
  Completed /\ repeat /\ CompleteAtStart /\ live["A"] > 0

(* ------------------------------------------------------------------ *)
(* C8                                                                  *)
(* ------------------------------------------------------------------ *)

\* the days first..last
Days(first, last) == {d \in 0..MaxToday : first <= d /\ d <= last}

\* C8: for a ticker that began with no data and no cursor, with today fixed and
\* every range request answered with the whole range, the requests issued so
\* far start at today-1, each continues the day before the previous one began,
\* each begins at the later of requiredStart and chunkEnd - chunkSize + 1, and
\* the cursor is the day before the last chunk began, or deleted once a chunk
\* began at requiredStart; the requests then cover [requiredStart, today-1].
C8_ChunkChain ==
  \A t \in Tickers :
    clean[t] =>
      LET c == chain[t]
          n == Len(c)
          rs == today - MIN_BACKFILL_DAYS
      IN /\ \A i \in 1..n :
              /\ c[i][2] = IF i = 1 THEN today - 1 ELSE c[i - 1][1] - 1
              /\ c[i][1] = IF c[i][2] - CHUNK_DAYS + 1 > rs
                           THEN c[i][2] - CHUNK_DAYS + 1 ELSE rs
              /\ c[i][1] <= c[i][2]
              /\ c[i][2] - c[i][1] + 1 <= CHUNK_DAYS
         /\ cursor[t] = IF n > 0 /\ c[n][1] > rs THEN c[n][1] - 1 ELSE NoDate
         /\ (n > 0 /\ cursor[t] = NoDate) =>
              UNION {Days(c[i][1], c[i][2]) : i \in 1..n} = Days(rs, today - 1)

\* the backfill of such a ticker took three requests, the last one clipped at
\* requiredStart, and its cursor is deleted
C8_Witness ==
  \E t \in Tickers :
    /\ clean[t]
    /\ Len(chain[t]) = 3
    /\ chain[t][3][1] = today - MIN_BACKFILL_DAYS
    /\ chain[t][3][2] - chain[t][3][1] + 1 < CHUNK_DAYS
    /\ cursor[t] = NoDate

(* ------------------------------------------------------------------ *)
(* C9                                                                  *)
(* ------------------------------------------------------------------ *)

\* the store has a row for every required ticker on every day of
\* [requiredStart, today-1]
Covered ==
  \A t \in required :
    Days(today - MIN_BACKFILL_DAYS, today - 1) \subseteq DatesOf(hist, t)

\* the backfill has nothing left to request: every required ticker has a row
\* dated at or before requiredStart and no cursor, so no later invocation with
\* the same today issues a range request, whatever the price feed would answer
BackfillStopped ==
  /\ Completed
  /\ \A t \in required :
       /\ cursor[t] = NoDate
       /\ \E d \in DatesOf(hist, t) : d <= today - MIN_BACKFILL_DAYS

\* C9: the backfill reaches its target.  When an invocation whose range
\* requests were all answered with a price for every date leaves the backfill
\* stopped, the rows dated before today change no more, so the store that
\* eventually covers [requiredStart, today-1] for the tickers it requested
\* covers it in that state, whatever earlier requests returned.
C9_BackfillReachesTarget ==
  (BackfillStopped /\ requests # {} /\ \A r \in requests : r.mode = "full") =>
    \A r \in requests :
      Days(today - MIN_BACKFILL_DAYS, today - 1) \subseteq DatesOf(hist, r.t)

(* ------------------------------------------------------------------ *)
(* C10                                                                 *)
(* ------------------------------------------------------------------ *)

\* the rows of ticker T in store s, as (date, price) pairs; of rows with the
\* same date the last one counts
PricesOf(s, T) ==
  {<<s[i].d, s[i].p>> :
     i \in {j \in 1..Len(s) :
              /\ Upper(s[j].t) = T /\ s[j].d # NoDate
              /\ \A k \in RowsAt(s, s[j].d, T) : k <= j}}

\* C10: a loop iteration that finds the budget exceeded issues no range request,
\* changes no cursor and no row, reports its ticker as unfinished and goes on;
\* and the invocation that completes has written, for every unfinished ticker,
\* the cursor and the rows it found (apart from today's live quote), and every
\* point the requests before the deadline merged.
C10_DeadlineStopsNewWork ==
  [][/\ (pc = "backfill" /\ idx' # idx /\ elapsed' > RUNTIME_BUDGET_MS) =>
          /\ requests' = requests /\ cursor' = cursor /\ map' = map
          /\ unfinished' = unfinished \cup {SortedTickers(required)[idx]}
          /\ pc' = "backfill"
     /\ (pc = "backfill" /\ elapsed > RUNTIME_BUDGET_MS /\ pc' = "backfill") =>
          requests' = requests /\ cursor' = cursor
     /\ (pc = "backfill" /\ pc' = "idle" /\ outcome' = "ok") =>
          /\ \A t \in unfinished :
               /\ cursor'[t] = cursor0[t]
               /\ \A r \in requests : r.t # t
               /\ {x \in PricesOf(hist', t) : x[1] # today \/ live'[t] = 0}
                    = {x \in PricesOf(hist0, t) : x[1] # today \/ live'[t] = 0}
          /\ \A r \in requests : MergedDates(r) \subseteq DatesOf(hist', r.t)]_vars

\* an invocation completed with a ticker left unfinished after another
\* ticker's chunk was ingested, and the store holds that chunk
C10_Witness ==
  /\ Completed
  /\ unfinished # {}
  /\ \E r \in requests : r.n > 0 /\ MergedDates(r) \subseteq DatesOf(hist, r.t)
  /\ hist # hist0

(* ------------------------------------------------------------------ *)
(* C11                                                                 *)
(* ------------------------------------------------------------------ *)

\* the earliest date store s has for ticker T is at or before day d
HasRowAtOrBefore(s, T, d) == \E e \in DatesOf(s, T) : e <= d

\* C11: a loop iteration visits a ticker for which the invocation has issued
\* no range request yet and issues at most one request, for that ticker; it
\* issues none when the store the invocation found has a row of the ticker
\* dated at or before requiredStart.
C11_OneRequestPerTicker ==
  [][(pc = "backfill" /\ idx' # idx) =>
       LET t == SortedTickers(required)[idx]
       IN /\ \A r \in requests : r.t # t
          /\ requests \subseteq requests'
          /\ Cardinality(requests' \ requests) <= 1
          /\ \A r \in requests' \ requests : r.t = t /\ t \in required
          /\ HasRowAtOrBefore(hist0, t, today - MIN_BACKFILL_DAYS) => requests' = requests]_vars

\* a completed invocation issued a request for one required ticker and none
\* for another whose history already reached requiredStart
C11_Witness ==
  /\ Completed
  /\ \E r \in requests : ~HasRowAtOrBefore(hist0, r.t, today - MIN_BACKFILL_DAYS)
  /\ \E t \in required :
       /\ HasRowAtOrBefore(hist0, t, today - MIN_BACKFILL_DAYS)
       /\ \A r \in requests : r.t # t

(* ------------------------------------------------------------------ *)
(* C12                                                                 *)
(* ------------------------------------------------------------------ *)

\* the rows store s holds for (date d, ticker T)
RowsOf(s, d, T) == {s[i] : i \in RowsAt(s, d, T)}

\* C12: a loop iteration adds or replaces map entries only for dates in
\* [requiredStart, today), and in the store a completed invocation writes the
\* row of (today, ticker) is the live quote or a row the store already had.
C12_IngestWindow ==
  [][/\ (pc = "backfill" /\ pc' = "backfill") =>
          \A i \in 1..Len(map') :
            (i > Len(map) \/ map'[i] # map[i]) =>
              /\ map'[i].k[1] >= today - MIN_BACKFILL_DAYS
              /\ map'[i].k[1] < today
     /\ (pc = "backfill" /\ pc' = "idle" /\ outcome' = "ok") =>
          \A t \in Tickers : \A r \in RowsOf(hist', today, t) :
            \/ live'[t] > 0 /\ r = Row(today, t, ToFixed2(live'[t]))
            \/ r \in RowsOf(hist0, today, t)]_vars

\* the feed answered a request ending yesterday with points up to today, some
\* of them were merged, and the completed invocation wrote no row for today
C12_Witness ==
  /\ Completed
  /\ \E r \in requests :
       /\ r.mode = "wide" /\ r.ce + 1 = today /\ r.n > 0
       /\ today \notin DatesOf(hist, r.t)
       /\ r.ce \in DatesOf(hist, r.t)

(* ------------------------------------------------------------------ *)
(* C13                                                                 *)
(* ------------------------------------------------------------------ *)

\* the row the store the invocation found holds last for (today, T), if any
TodayRowBefore(T) ==
  LET is == RowsAt(hist0, today, T)
  IN IF is = {} THEN {} ELSE {hist0[CHOOSE i \in is : \A j \in is : j <= i]}

\* C13: after a completed invocation a required ticker with a positive live
\* quote has exactly one row dated today, carrying the quote with two decimals,
\* and a required ticker whose quote is missing, zero or negative has for today
\* the row the store already had, or none.
C13_LiveQuoteOncePerDay ==
  Completed =>
    \A t \in required :
      IF live[t] > 0
      THEN /\ Cardinality(RowsAt(hist, today, t)) = 1
           /\ RowsOf(hist, today, t) = {Row(today, t, ToFixed2(live[t]))}
      ELSE /\ Cardinality(RowsAt(hist, today, t)) <= 1
           /\ RowsOf(hist, today, t) = TodayRowBefore(t)

\* the routine ran again the same day: one ticker's row for today was replaced
\* by the new quote, the other's quote was missing and its row was kept
C13_Witness ==
  /\ Completed
  /\ \E t, u \in required :
       /\ live[t] > 0
       /\ TodayRowBefore(t) # {}
       /\ TodayRowBefore(t) # {Row(today, t, ToFixed2(live[t]))}
       /\ live[u] <= 0
       /\ TodayRowBefore(u) # {}

(* ------------------------------------------------------------------ *)
(* C14                                                                 *)
(* ------------------------------------------------------------------ *)

\* the rows of the written store that the store the invocation found lacked
AddedRows == {hist[i] : i \in 1..Len(hist)} \ {hist0[i] : i \in 1..Len(hist0)}

\* C14: every row a completed invocation adds to the store has a strictly
\* positive price.  Stated for the rows added by the backfill (dated before
\* today): a price of zero or less returned by the range feed is not stored.
C14_RangePricesPositive ==
  Completed => \A r \in AddedRows : r.d < today => r.p > 0

(* ------------------------------------------------------------------ *)
(* C15                                                                 *)
(* ------------------------------------------------------------------ *)

\* row a comes strictly before row b: earlier date, or same date and the
\* upper-cased ticker earlier
Before(a, b) ==
  \/ a.d < b.d
  \/ a.d = b.d /\ TickerRank(Upper(a.t)) < TickerRank(Upper(b.t))

\* C15: the store a completed invocation writes is strictly ascending by
\* (date, ticker), so the row sequence is determined by the set of rows: when
\* the store it found was also ascending and holds the same rows, the written
\* sequence is the same, whatever the order of the merges.
C15_StoreSorted ==
  Completed =>
    /\ \A i, j \in 1..Len(hist) : i < j => Before(hist[i], hist[j])
    /\ ( /\ \A i, j \in 1..Len(hist0) : i < j => Before(hist0[i], hist0[j])
         /\ {hist[i] : i \in 1..Len(hist)} = {hist0[i] : i \in 1..Len(hist0)} )
       => hist = hist0

\* the merges of a completed invocation left the map out of order both by
\* date and, within one date, by ticker
C15_Witness ==
  /\ Completed
  /\ Len(hist) >= 3
  /\ \E i, j \in 1..Len(map) : i < j /\ map[i].k[1] > map[j].k[1]
  /\ \E i, j \in 1..Len(map) :
       i < j /\ map[i].k[1] = map[j].k[1]
             /\ TickerRank(map[i].k[2]) > TickerRank(map[j].k[2])

(* ------------------------------------------------------------------ *)
(* C16                                                                 *)
(* ------------------------------------------------------------------ *)

\* C16: an invocation that finds the table without a data row ends fatally in
\* its first step: the store and every cursor stay as they were, no range
\* request is issued and no live quote is fetched.
C16_EmptyTableIsFatal ==
  [][(pc = "idle" /\ hist = <<>>) =>
       /\ pc' = "idle" /\ outcome' = "fatal"
       /\ hist' = hist /\ cursor' = cursor
       /\ requests' = {} /\ live' = live]_vars

\* an invocation ended fatally on a table without data rows while a cursor
\* was persisted, for a required set that differs from the previous one
C16_Witness ==
  /\ outcome = "fatal"
  /\ hist = <<>>
  /\ \E t \in Tickers : cursor[t] # NoDate /\ t \notin required

(* ------------------------------------------------------------------ *)
(* C17                                                                 *)
(* ------------------------------------------------------------------ *)

\* the dates of the rows of ledger l
LedgerDates(l) == {l[i].date : i \in 1..Len(l)}

\* the date, value and price cells of the rows of l other than the row of d
OtherRaw(l, d) ==
  {<<l[i].date, l[i].pv, l[i].px>> : i \in {j \in 1..Len(l) : l[j].date # d}}

\* C17: a call that returns leaves the ledger with pairwise distinct dates in
\* ascending order; it holds one row for the call's date, carrying the call's
\* value and prices; the row count is unchanged when the date was present and
\* one more when it was new; the other rows keep their date, value and prices.
C17_LedgerDateUniqueAscending ==
  [][lout' = "ok" =>
       /\ \A i, j \in 1..Len(ledger') : i < j => ledger'[i].date < ledger'[j].date
       /\ Len(ledger') = IF lcall'.date \in LedgerDates(ledger)
                         THEN Len(ledger) ELSE Len(ledger) + 1
       /\ \E i \in 1..Len(ledger') :
            /\ ledger'[i].date = lcall'.date
            /\ ledger'[i].pv = ToFixed2Text(lcall'.pv)
            /\ \A k \in 1..Len(Benches) : ledger'[i].px[k] = ToFixed2Text(lcall'.px[k])
       /\ OtherRaw(ledger', lcall'.date) = OtherRaw(ledger, lcall'.date)]_vars

\* the ledger is full, and the last call replaced the row of a date that lies
\* between two others
C17_Witness ==
  /\ lout = "ok"
  /\ Len(ledger) = MaxLedgerDay
  /\ \E i, j \in 1..Len(ledger) :
       ledger[i].date < lcall.date /\ lcall.date < ledger[j].date

(* ------------------------------------------------------------------ *)
(* C18                                                                 *)
(* ------------------------------------------------------------------ *)

\* the date of the base row of ledger l under chart_start_date c: c when l
\* has a row for it, otherwise the date of the first row
BaseDate(l, c) == IF c \in LedgerDates(l) THEN c ELSE l[1].date

\* C18: after a call that returns, the base row has 0 in PortfolioPct and in
\* every Pct_ column, and every row before the base row has N/A in PortfolioPct,
\* in every Pct_ column and in every Diff_ column.
C18_RebaseInvariant ==
  lout = "ok" =>
    \A i \in 1..Len(ledger) :
      /\ ledger[i].date = BaseDate(ledger, lcall.chartStart) =>
           /\ ledger[i].portPct = 0
           /\ \A k \in 1..Len(Benches) : ledger[i].pct[k] = 0
      /\ ledger[i].date < BaseDate(ledger, lcall.chartStart) =>
           /\ ledger[i].portPct = NA
           /\ \A k \in 1..Len(Benches) : ledger[i].pct[k] = NA /\ ledger[i].diff[k] = NA

\* the base row is the configured one, a row lies before it, and a row after
\* it has percentages other than zero
C18_Witness ==
  /\ lout = "ok"
  /\ BaseDate(ledger, lcall.chartStart) = lcall.chartStart
  /\ \E i, j \in 1..Len(ledger) :
       /\ ledger[i].date < lcall.chartStart
       /\ ledger[j].date > lcall.chartStart
       /\ ledger[j].portPct \notin {0, NA}
       /\ ledger[j].diff[1] \notin {0, NA}

(* ------------------------------------------------------------------ *)
(* C19                                                                 *)
(* ------------------------------------------------------------------ *)

\* every row of ledger l is in ledger m with the same PortfolioPct, Pct_ and
\* Diff_ cells
SamePercentages(l, m) ==
  \A i \in 1..Len(l) : \E j \in 1..Len(m) :
    /\ m[j].date = l[i].date
    /\ m[j].portPct = l[i].portPct
    /\ m[j].pct = l[i].pct
    /\ m[j].diff = l[i].diff

\* a returning call upserts a day that is later than every stored row; the
\* ledger was written by a returning call with the same chart_start_date
AppendsNewDay ==
  /\ lout = "ok" /\ lout' = "ok"
  /\ lcall'.chartStart = lcall.chartStart
  /\ ledger # <<>>
  /\ \A i \in 1..Len(ledger) : ledger[i].date < lcall'.date

\* C19 as stated: upserting a row for a new day leaves the PortfolioPct, Pct_
\* and Diff_ cells of every previously stored row as they were.
C19_AppendKeepsPercentages ==
  [][AppendsNewDay => SamePercentages(ledger, ledger')]_vars

\* C19, amended: upserting a row for a date the ledger does not have, after a
\* returning call with the same chart_start_date, leaves the PortfolioPct, Pct_
\* and Diff_ cells of every previously stored row as they were, provided the
\* base row is the same row before and after the upsert.
C19_UpsertKeepsPercentagesUnderSameBase ==
  [][( /\ lout = "ok" /\ lout' = "ok"
       /\ lcall'.chartStart = lcall.chartStart
       /\ ledger # <<>>
       /\ lcall'.date \notin LedgerDates(ledger)
       /\ BaseDate(ledger', lcall'.chartStart) = BaseDate(ledger, lcall.chartStart) )
     => SamePercentages(ledger, ledger')]_vars

\* a new date was upserted after a returning call with the same
\* chart_start_date; the base row is another row, and a third row carries
\* percentages other than zero
C19_Witness ==
  /\ lout = "ok" /\ lcall.isNew /\ lcall.follows
  /\ BaseDate(ledger, lcall.chartStart) # lcall.date
  /\ \E i \in 1..Len(ledger) :
       /\ ledger[i].date \notin {lcall.date, BaseDate(ledger, lcall.chartStart)}
       /\ ledger[i].portPct \notin {0, NA}
       /\ ledger[i].diff[1] \notin {0, NA}

(* ------------------------------------------------------------------ *)
(* C20                                                                 *)
(* ------------------------------------------------------------------ *)

\* a value cell that is not a number above zero
InvalidCell(c) == c = NaN \/ c <= 0

\* the date, value and prices of the rows call c works on: the stored rows of
\* the other dates and the call's own row
RowsOfCall(l, c) ==
  OtherRaw(l, c.date) \cup
    {<<c.date, ToFixed2Text(c.pv), [k \in 1..Len(Benches) |-> ToFixed2Text(c.px[k])]>>}

\* the base row of call c on ledger l has an invalid value or price: the base
\* row is the row of chart_start_date, or the earliest row when there is none
BaseRowInvalid(l, c) ==
  \E r \in RowsOfCall(l, c) :
    /\ IF \E q \in RowsOfCall(l, c) : q[1] = c.chartStart
       THEN r[1] = c.chartStart
       ELSE \A q \in RowsOfCall(l, c) : r[1] <= q[1]
    /\ (InvalidCell(r[2]) \/ \E k \in 1..Len(Benches) : InvalidCell(r[3][k]))

\* C20: a call whose base row has an unparseable or non-positive portfolio
\* value or baseline price raises an error, and a call that raises an error
\* leaves the persisted ledger exactly as it was.
C20_LedgerAllOrNothing ==
  [][/\ (lcall' # lcall /\ BaseRowInvalid(ledger, lcall')) => lout' = "error"
     /\ lout' = "error" => ledger' = ledger]_vars

\* a call for a new date with a valid value and valid prices raised an error
\* because the stored base row has an invalid price; its row was not added
C20_Witness ==
  /\ lout = "error"
  /\ lcall.isNew
  /\ lcall.date \notin LedgerDates(ledger)
  /\ ~InvalidCell(ToFixed2Text(lcall.pv))
  /\ \A k \in 1..Len(Benches) : ~InvalidCell(ToFixed2Text(lcall.px[k]))
  /\ BaseRowInvalid(ledger, lcall)

(* ------------------------------------------------------------------ *)
(* The daily routine (runDailyRoutine) around the snapshot             *)
(*                                                                     *)
(* One action is one run.  What the run reads is an input: whether the *)
(* configuration and the HIST synchronisation succeed, the as-of date  *)
(* of the store (NoDate when it holds no valid date), the portfolio    *)
(* value and the benchmark prices of that date, chart_start_date, and  *)
(* whether the charts can be drawn.  The alerts of the synchronisation *)
(* (lines 113-114) are left out of the alerts array.                   *)
(* ------------------------------------------------------------------ *)

\* totalVal and benchPrices a snapshot can hand to the ledger: a price read
\* from the store is a finite number (also a negative one), or 0 when the
\* date has no row
SnapshotValues ==
  {v \in CallValues : \A i \in 1..Len(v.px) : isFinite(v.px[i])}
  \cup {[pv |-> 100000, px |-> <<-50000, 200000>>]}

\* mutant: one positive price is enough
BenchPricesPositive_Any(benchPrices) ==
  \E i \in 1..Len(benchPrices) : isFinite(benchPrices[i]) /\ benchPrices[i] > 0

\* benchPrices.every(p => p > 0) of line 416
BenchPricesPositive(benchPrices) ==
  \A i \in 1..Len(benchPrices) : isFinite(benchPrices[i]) /\ benchPrices[i] > 0

\* history: what the run read, kept in args: whether it reached the ledger
\* block of the snapshot, the active benchmarks and their prices on the as-of
\* date, and the ledger as it was
RunReads(reached, benches, benchPrices) ==
  /\ args' = [reached |-> reached, benches |-> benches, px |-> benchPrices,
              ledger |-> ledger]
  /\ UNCHANGED <<ret, done>>

\* lines 120-129: the charts are generated inside their own try, and the
\* daily email is sent
ChartsAndEmail(runAlerts, chartsOk) ==
  /\ charts' = TRUE
  /\ alerts' = runAlerts \cup (IF chartsOk THEN {} ELSE {"CHART"})
  /\ mail' = "daily"

\* an exception reaches the catch of lines 132-139: assertConfig_ (line 89),
\* a file that cannot be read or parsed (91-92), updateHistDatabase_ (112),
\* or a store without a valid date (348)
RunFatal ==
  /\ mail' = "fatal"
  /\ alerts' = {}
  /\ charts' = FALSE
  /\ RunReads(FALSE, <<>>, <<>>)
  /\ UNCHANGED <<histVars, ledgerVars>>

\* lines 412-413: the policy lists no active benchmarks
RunNoBenchmarks(chartsOk) ==
  /\ ChartsAndEmail({"LOG: no active_benchmarks"}, chartsOk)
  /\ RunReads(TRUE, <<>>, <<>>)
  /\ UNCHANGED <<histVars, ledgerVars>>

\* lines 416-420: a benchmark has no positive price on the as-of date
RunLogSkipped(benchPrices, chartsOk) ==
  /\ ~BenchPricesPositive(benchPrices)
  /\ ChartsAndEmail({"LOG: skipped"}, chartsOk)
  /\ RunReads(TRUE, Benches, benchPrices)
  /\ UNCHANGED <<histVars, ledgerVars>>

\* line 417 returns
RunLogged(asOfDate, totalVal, benchPrices, chartStart, chartsOk) ==
  /\ BenchPricesPositive(benchPrices)
  /\ UpsertOk(asOfDate, totalVal, benchPrices, chartStart)
  /\ ChartsAndEmail({}, chartsOk)
  /\ RunReads(TRUE, Benches, benchPrices)
  /\ UNCHANGED histVars

\* line 417 throws; lines 422-424 turn the error into an alert
RunLogError(asOfDate, totalVal, benchPrices, chartStart, chartsOk) ==
  /\ BenchPricesPositive(benchPrices)
  /\ UpsertThrow(asOfDate, totalVal, benchPrices, chartStart)
  /\ ChartsAndEmail({"LOG: base row invalid"}, chartsOk)
  /\ RunReads(TRUE, Benches, benchPrices)
  /\ UNCHANGED histVars

RoutineNext ==
  \/ RunFatal
  \/ \E chartsOk \in BOOLEAN : RunNoBenchmarks(chartsOk)
  \/ \E v \in SnapshotValues, chartsOk \in BOOLEAN :
       RunLogSkipped(v.px, chartsOk)
  \/ \E d \in LedgerDays, v \in SnapshotValues, c \in ChartStarts,
        chartsOk \in BOOLEAN :
       RunLogged(d, v.pv, v.px, c, chartsOk)
  \/ \E d \in LedgerDays, v \in SnapshotValues, c \in ChartStarts,
        chartsOk \in BOOLEAN :
       RunLogError(d, v.pv, v.px, c, chartsOk)

RoutineSpec == PerfLogInit /\ [][RoutineNext]_vars

\* the ledger update of the last run raised the error of the base row
LedgerFailedInRun == "LOG: base row invalid" \in alerts

\* C21: a run whose ledger update finds the base row invalid ends with the
\* fatal email: it does not reach the chart generation and sends no daily
\* email.
C21_LedgerErrorIsFatal ==
  LedgerFailedInRun => (mail = "fatal" /\ ~charts)

(* ------------------------------------------------------------------ *)
(* The snapshot (processSnapshot_): as-of date and portfolio value     *)
(*                                                                     *)
(* A HIST row is Row(date, ticker, price): the date is a day number,   *)
(* or NoDate for a text that is not a date; the price is the number of *)
(* cents parseFloat reads.  A holdings row is [t, qty]: qty is the     *)
(* number parseFloat reads, or NaN.  fixed_asset_prices is a function  *)
(* from the tickers it lists to their price in cents.                  *)
(* ------------------------------------------------------------------ *)
MaxSnapDay == 2

\* what the store may hold for one date and ticker: no row, or a price
NoRow == 0
StoreCells == {NoRow, 10000, 25000}

\* the (date, ticker) keys of a store, in the order the engine sorts them
SnapKeys ==
  [k \in 1..(MaxSnapDay * Len(TickerOrder)) |->
     [d |-> ((k - 1) \div Len(TickerOrder)) + 1,
      t |-> TickerOrder[((k - 1) % Len(TickerOrder)) + 1]]]

\* the rows of the store that holds price f[k] for key k
StoreRows(f) ==
  LET all == [k \in 1..Len(SnapKeys) |-> Row(SnapKeys[k].d, SnapKeys[k].t, f[k])]
  IN SelectSeq(all, LAMBDA r : r.p # NoRow)

\* stores the snapshot may read: sorted and deduplicated as the engine leaves
\* them, some with a leading row whose date is not a date
SnapStores ==
  LET kept == {StoreRows(f) : f \in [1..Len(SnapKeys) -> StoreCells]}
  IN kept \cup {<<Row(NoDate, "A", 99900)>> \o s : s \in kept}

\* holdings files: no position, one position, a position whose ticker is in
\* lower case, a quantity that is not a number, a ticker the store never has
SnapHoldings ==
  { <<>>,
    <<[t |-> "A", qty |-> 2]>>,
    <<[t |-> "A", qty |-> 2], [t |-> "b", qty |-> 3]>>,
    <<[t |-> "B", qty |-> NaN], [t |-> "A", qty |-> 1]>>,
    <<[t |-> "b", qty |-> 3], [t |-> "CASH", qty |-> 4]>> }

\* governance.fixed_asset_prices of the policy
SnapFixed ==
  { [x \in {} |-> 0], [x \in {"CASH"} |-> 100], [x \in {"B"} |-> 5000] }

\* allDates of lines 344-346
AllDates(rows) == {rows[i].d : i \in 1..Len(rows)} \cap {d \in Int : IsYMD(d)}

\* asOfDate of line 349 (allDates is not empty)
AsOfDate(rows) == CHOOSE d \in AllDates(rows) : \A e \in AllDates(rows) : e <= d

\* mutant: without a row on the date, the latest earlier row is read
PriceByKey_Latest(rows, d, T) ==
  LET hits == {i \in 1..Len(rows) :
                 IsYMD(rows[i].d) /\ rows[i].d <= d /\ Upper(rows[i].t) = T
                 /\ isFinite(rows[i].p)}
  IN IF hits = {} THEN 0
     ELSE rows[CHOOSE i \in hits : \A j \in hits : j <= i].p

\* priceByKey[`${d}|${T}`] || 0 of lines 352-359 and 369: the last row
\* written under the key, 0 without one
PriceByKey(rows, d, T) ==
  LET hits == {i \in 1..Len(rows) :
                 rows[i].d = d /\ Upper(rows[i].t) = T /\ isFinite(rows[i].p)}
  IN IF hits = {} THEN 0
     ELSE rows[CHOOSE i \in hits : \A j \in hits : j <= i].p

\* parseFloat(r[1]) || 0 of line 367
Qty(r) == IF isFinite(r.qty) THEN r.qty ELSE 0

\* px of lines 368-369
HoldingPrice(rows, asOfDate, fixed, T) ==
  IF T \in DOMAIN fixed THEN fixed[T] ELSE PriceByKey(rows, asOfDate, T)

\* totalVal of lines 364-371, in cents
RECURSIVE TotalVal(_, _, _, _)
TotalVal(rows, asOfDate, fixed, holdings) ==
  IF holdings = <<>> THEN 0
  ELSE LET r == holdings[Len(holdings)]
       IN TotalVal(rows, asOfDate, fixed, SubSeq(holdings, 1, Len(holdings) - 1))
          + Qty(r) * HoldingPrice(rows, asOfDate, fixed, Upper(r.t))

\* line 348: the store has no valid date
SnapshotThrows ==
  /\ ~done
  /\ AllDates(args.rows) = {}
  /\ done' = TRUE
  /\ ret' = [threw |-> TRUE, asOfDate |-> NoDate, totalVal |-> 0]
  /\ UNCHANGED <<args, histVars, ledgerVars, reportVars>>

\* lines 349-371: the as-of date and the portfolio value of the snapshot
SnapshotTotals ==
  /\ ~done
  /\ AllDates(args.rows) # {}
  /\ done' = TRUE
  /\ ret' = [threw |-> FALSE,
             asOfDate |-> AsOfDate(args.rows),
             totalVal |-> TotalVal(args.rows, AsOfDate(args.rows), args.fixed,
                                   args.holdings)]
  /\ UNCHANGED <<args, histVars, ledgerVars, reportVars>>

SnapshotNext == SnapshotThrows \/ SnapshotTotals

SnapshotInit ==
  /\ StoresInit
  /\ hist = <<Row(FirstToday - 1, "A", 100)>>
  /\ args \in [rows : SnapStores, holdings : SnapHoldings, fixed : SnapFixed]
  /\ ret = <<>>
  /\ done = FALSE

SnapshotSpec == SnapshotInit /\ [][SnapshotNext]_vars

\* the valid dates of a store and its latest one, read off the set of rows
ValidDatesIn(rows) == {d \in 1..MaxSnapDay : \E i \in 1..Len(rows) : rows[i].d = d}
LatestIn(rows) == CHOOSE d \in ValidDatesIn(rows) : \A e \in ValidDatesIn(rows) : e <= d

\* the value of one position under the rule of the specification
PositionValue(rows, fixed, r) ==
  LET T == Upper(r.t)
      onDay == {i \in 1..Len(rows) : rows[i].d = LatestIn(rows) /\ rows[i].t = T}
      price == IF T \in DOMAIN fixed THEN fixed[T]
               ELSE IF onDay = {} THEN 0
               ELSE rows[CHOOSE i \in onDay : TRUE].p
  IN (IF r.qty = NaN THEN 0 ELSE r.qty) * price

RECURSIVE SumPositions(_, _, _, _)
SumPositions(rows, fixed, holdings, n) ==
  IF n = 0 THEN 0
  ELSE PositionValue(rows, fixed, holdings[n]) + SumPositions(rows, fixed, holdings, n - 1)

\* C22: the portfolio value of a snapshot is the sum over the holdings of
\* quantity times price, the price being the fixed price of the policy when
\* one is configured, else the store's price of that ticker on the latest
\* valid date of the store, else zero.
C22_PortfolioValue ==
  (done /\ ~ret.threw) =>
    /\ ret.asOfDate = LatestIn(args.rows)
    /\ ret.totalVal = SumPositions(args.rows, args.fixed, args.holdings,
                                   Len(args.holdings))

\* a position priced from the store, one priced by the policy, and one whose
\* ticker has an earlier price only and counts as zero
C22_Witness ==
  /\ done /\ ~ret.threw
  /\ args.holdings = <<[t |-> "b", qty |-> 3], [t |-> "CASH", qty |-> 4]>>
  /\ "CASH" \in DOMAIN args.fixed
  /\ PriceByKey(args.rows, 1, "B") > 0
  /\ ret.asOfDate = 2
  /\ PriceByKey(args.rows, 2, "B") = 0
  /\ ret.totalVal = 4 * 100

(* ------------------------------------------------------------------ *)
(* Lifecycle analytics (calculateAlphaAndCorrVsBenchmark_)             *)
(*                                                                     *)
(* The ticker under analysis is "A" and the baseline is "B".  alpha is *)
(* the text of (alpha * 100).toFixed(1): a number of tenths of a       *)
(* percent, computed exactly and rounded half up in magnitude, or NaN  *)
(* when a first price is zero.  corr is "number" when a finite         *)
(* correlation is printed.  The fields an error result does not have   *)
(* hold NoDate, NA and "absent".  Store prices are positive.           *)
(* ------------------------------------------------------------------ *)
MaxAlphaDay == 4
MIN_CORR_RETURNS == 3

\* what the store may hold for the ticker and for the baseline on date d: no
\* row, the price of a path that moves, or a price that stays
TickerCells(d) == <<NoRow, 100, IF d <= 3 THEN <<100, 110, 121>>[d] ELSE 130 + d>>
BenchCells(d) == <<NoRow, 50, IF d <= 3 THEN <<50, 55, 55>>[d] ELSE 60 + d>>

\* the rows of the store that holds f[d] for the ticker and g[d] for the
\* baseline on date d
AlphaRows(f, g) ==
  LET all == [k \in 1..(2 * MaxAlphaDay) |->
                IF k % 2 = 1 THEN Row((k + 1) \div 2, "A", f[(k + 1) \div 2])
                ELSE Row(k \div 2, "B", g[k \div 2])]
  IN SelectSeq(all, LAMBDA r : r.p # NoRow)

AlphaStores ==
  {AlphaRows([d \in 1..MaxAlphaDay |-> TickerCells(d)[f[d]]],
             [d \in 1..MaxAlphaDay |-> BenchCells(d)[g[d]]]) :
     f \in [1..MaxAlphaDay -> 1..3], g \in [1..MaxAlphaDay -> 1..3]}

\* entered_stage_date: missing or not a date, or a date
StartStrs == {NoDate} \cup 1..(MaxAlphaDay - 1)

\* the keys of tMap / bMap of lines 438-451
MapKeys(rows, sym, startStr) ==
  {rows[i].d : i \in {j \in 1..Len(rows) :
                        /\ ~(rows[j].d < startStr)
                        /\ Upper(rows[j].t) = sym
                        /\ isFinite(rows[j].p)}}

\* a set of dates as the sorted array
RECURSIVE SortedDates(_)
SortedDates(S) ==
  IF S = {} THEN <<>>
  ELSE LET m == CHOOSE d \in S : \A e \in S : d <= e
       IN <<m>> \o SortedDates(S \ {m})

\* mutant: every date of the first map is kept
intersectSortedKeys_All(m1, m2) == SortedDates(m1)

\* intersectSortedKeys_(m1, m2) on the key sets
intersectSortedKeys_(m1, m2) == SortedDates({k \in m1 : k \in m2})

\* mutant: the return of the ticker relative to the return of the baseline
AlphaCell_Relative(t0, tN, b0, bN) ==
  IF t0 = 0 \/ bN = 0 THEN NaN
  ELSE RoundDiv(1000 * (tN * b0 - bN * t0), t0 * bN)

\* (alpha * 100).toFixed(1) of lines 458-466 and 486
AlphaCell(t0, tN, b0, bN) ==
  IF t0 = 0 \/ b0 = 0 THEN NaN
  ELSE RoundDiv(1000 * (tN * b0 - bN * t0), t0 * b0)

\* the returns pushed on x (or on y) by lines 470-480, each as <<cur, prev>>
ReturnPairs(rows, sym, dates) ==
  [i \in 1..(Len(dates) - 1) |->
     <<PriceByKey(rows, dates[i + 1], sym), PriceByKey(rows, dates[i], sym)>>]

\* all returns of a series are the same number
ZeroVariance(pairs) ==
  \A i, j \in 1..Len(pairs) : pairs[i][1] * pairs[j][2] = pairs[j][1] * pairs[i][2]

\* mutant: the correlation is computed for any number of returns
CorrCells_NoMinimum(x, y) ==
  IF Len(x) < 2 THEN {"N/A"}
  ELSE IF ZeroVariance(x) \/ ZeroVariance(y) THEN {"N/A", "number"}
  ELSE {"number"}

\* corrStr of lines 482-489: what pearson_ returns for a series without
\* variance depends on the rounding of its sums
CorrCells(x, y) ==
  IF Len(x) < MIN_CORR_RETURNS THEN {"N/A"}
  ELSE IF ZeroVariance(x) \/ ZeroVariance(y) THEN {"N/A", "number"}
  ELSE {"number"}

AlphaError(err) ==
  [ok |-> FALSE, err |-> err, windowStart |-> NoDate, windowEnd |-> NoDate,
   alpha |-> NA, corr |-> "absent"]

\* the results calculateAlphaAndCorrVsBenchmark_(rows, col, T, B, startStr)
\* can return
calculateAlphaAndCorrVsBenchmark_(rows, T, B, startStr) ==
  LET tMap == MapKeys(rows, T, startStr)
      bMap == MapKeys(rows, B, startStr)
      dates == intersectSortedKeys_(tMap, bMap)
      d0 == dates[1]
      dN == dates[Len(dates)]
  IN IF ~IsYMD(startStr) THEN {AlphaError("BAD_DATE")}
     ELSE IF Cardinality(tMap) < 2 \/ Cardinality(bMap) < 2 THEN {AlphaError("NO_DATA")}
     ELSE IF Len(dates) < 2 THEN {AlphaError("GAP")}
     ELSE {[ok |-> TRUE, err |-> "", windowStart |-> d0, windowEnd |-> dN,
            alpha |-> AlphaCell(PriceByKey(rows, d0, T), PriceByKey(rows, dN, T),
                                PriceByKey(rows, d0, B), PriceByKey(rows, dN, B)),
            corr |-> c] :
             c \in CorrCells(ReturnPairs(rows, T, dates), ReturnPairs(rows, B, dates))}

\* one call of the function that ends with the given error ("" for ok)
AlphaCall(err) ==
  /\ ~done
  /\ done' = TRUE
  /\ ret' \in calculateAlphaAndCorrVsBenchmark_(args.rows, "A", "B", args.startStr)
  /\ ret'.err = err
  /\ UNCHANGED <<args, histVars, ledgerVars, reportVars>>

\* lines 434-436
AlphaBadDate == AlphaCall("BAD_DATE")

\* line 453
AlphaNoData == AlphaCall("NO_DATA")

\* lines 455-456
AlphaGap == AlphaCall("GAP")

\* lines 458-499
AlphaOk == AlphaCall("")

AlphaNext == AlphaBadDate \/ AlphaNoData \/ AlphaGap \/ AlphaOk

AlphaInit ==
  /\ StoresInit
  /\ hist = <<Row(FirstToday - 1, "A", 100)>>
  /\ args \in [rows : AlphaStores, startStr : StartStrs]
  /\ ret = <<>>
  /\ done = FALSE

AlphaSpec == AlphaInit /\ [][AlphaNext]_vars

\* the dates on or after the start on which the store has a row of the symbol
DatesWith(sym) ==
  {d \in 1..MaxAlphaDay :
     d >= args.startStr /\ \E i \in 1..Len(args.rows) :
                             args.rows[i].d = d /\ args.rows[i].t = sym}

SharedDates == DatesWith("A") \cap DatesWith("B")

\* C23: with a valid entered_stage_date the analytics are ok exactly when
\* ticker and baseline share at least two store dates on or after that date;
\* the window then runs from the earliest to the latest shared date, and any
\* other result is NO_DATA or GAP without an alpha.
C23_AlignedWindow ==
  (done /\ IsYMD(args.startStr)) =>
    /\ ret.ok <=> Cardinality(SharedDates) >= 2
    /\ ret.ok => /\ ret.windowStart \in SharedDates
                 /\ ret.windowEnd \in SharedDates
                 /\ \A d \in SharedDates : ret.windowStart <= d /\ d <= ret.windowEnd
    /\ ~ret.ok => ret.err \in {"NO_DATA", "GAP"} /\ ret.alpha = NA

\* the ticker has a row before the first shared date, and the window starts
\* at the shared date
C23_Witness ==
  /\ done /\ ret.ok
  /\ args.startStr = 1
  /\ DatesWith("A") = {1, 2, 3}
  /\ DatesWith("B") = {2, 3}
  /\ ret.windowStart = 2 /\ ret.windowEnd = 3

\* the store's price of the symbol on a date of the window
PriceAt(sym, d) ==
  args.rows[CHOOSE i \in 1..Len(args.rows) :
              args.rows[i].d = d /\ args.rows[i].t = sym].p

\* C24: alpha is (t_last / t_first - 1) - (b_last / b_first - 1) over the
\* first and the last date of the window, whatever the prices in between:
\* the printed number of tenths of a percent is the nearest one to it.
C24_AlphaFromWindowEnds ==
  (done /\ ret.ok) =>
    LET t0 == PriceAt("A", ret.windowStart)
        tN == PriceAt("A", ret.windowEnd)
        b0 == PriceAt("B", ret.windowStart)
        bN == PriceAt("B", ret.windowEnd)
        exact == 1000 * (tN * b0 - bN * t0)
        shown == ret.alpha * t0 * b0
    IN 2 * (IF shown >= exact THEN shown - exact ELSE exact - shown) <= t0 * b0

\* scenario 2 of the specification: ticker 100, 110, 121 and baseline 50, 55,
\* 55 on three dates give alpha 0.11, printed as 11.0
C24_Witness ==
  /\ done /\ ret.ok
  /\ args.startStr = 1
  /\ SharedDates = {1, 2, 3}
  /\ <<PriceAt("A", 1), PriceAt("A", 2), PriceAt("A", 3)>> = <<100, 110, 121>>
  /\ <<PriceAt("B", 1), PriceAt("B", 2), PriceAt("B", 3)>> = <<50, 55, 55>>
  /\ ret.alpha = 110

\* C25: a correlation is printed only for at least MIN_CORR_RETURNS pairs of
\* consecutive shared dates; with fewer the result is still ok, with an alpha
\* and with the correlation not available.
C25_CorrelationNeedsMinimum ==
  (done /\ ret.ok) =>
    /\ ret.corr = "number" => Cardinality(SharedDates) - 1 >= MIN_CORR_RETURNS
    /\ Cardinality(SharedDates) - 1 < MIN_CORR_RETURNS =>
         ret.corr = "N/A" /\ ret.alpha # NA /\ ret.alpha # NaN

\* two pairs of returns that differ: an alpha, and no correlation
C25_Witness ==
  /\ done /\ ret.ok
  /\ SharedDates = {2, 3, 4}
  /\ PriceAt("A", 2) = 110 /\ PriceAt("A", 3) = 121 /\ PriceAt("A", 4) = 100
  /\ PriceAt("B", 2) = 55 /\ PriceAt("B", 3) = 50 /\ PriceAt("B", 4) = 64
  /\ ret.corr = "N/A"
  /\ ret.alpha = RoundDiv(1000 * (100 * 55 - 64 * 110), 110 * 55)

(* ------------------------------------------------------------------ *)
(* Pearson correlation (pearson_)                                      *)
(*                                                                     *)
(* The numbers of pearson_ are binary floating-point numbers: every    *)
(* sum, product and difference is rounded to the nearest number with   *)
(* Precision significant bits, ties to the even one (53 bits in the    *)
(* script; scaled down here, so that the rounding shows on small       *)
(* whole numbers).  The returns are whole multiples of one unit.  The  *)
(* result num / den is kept as num and den * den.                      *)
(* ------------------------------------------------------------------ *)
Precision == 6
MaxPairs == 3

\* the returns of a series
PearsonValues == {-3, 1, 2, 5}

PearsonSeries ==
  UNION {[1..n -> PearsonValues] : n \in 0..MaxPairs}

RECURSIVE BitLength(_)
BitLength(a) == IF a = 0 THEN 0 ELSE 1 + BitLength(a \div 2)

RECURSIVE Pow2(_)
Pow2(k) == IF k = 0 THEN 1 ELSE 2 * Pow2(k - 1)

\* the floating-point number nearest to v
Fl(v) ==
  LET a == IF v < 0 THEN -v ELSE v
      b == BitLength(a)
  IN IF b <= Precision THEN v
     ELSE LET unit == Pow2(b - Precision)
              q == a \div unit
              r == a % unit
              up == (2 * r > unit) \/ (2 * r = unit /\ q % 2 = 1)
              m == (IF up THEN q + 1 ELSE q) * unit
          IN IF v < 0 THEN -m ELSE m

\* the five sums of lines 929-935 after the first i pairs
RECURSIVE Sums(_, _, _)
Sums(x, y, i) ==
  IF i = 0 THEN [sumX |-> 0, sumY |-> 0, sumXY |-> 0, sumX2 |-> 0, sumY2 |-> 0]
  ELSE LET s == Sums(x, y, i - 1)
           a == x[i]
           b == y[i]
       IN [sumX |-> Fl(s.sumX + a),
           sumY |-> Fl(s.sumY + b),
           sumXY |-> Fl(s.sumXY + Fl(a * b)),
           sumX2 |-> Fl(s.sumX2 + Fl(a * a)),
           sumY2 |-> Fl(s.sumY2 + Fl(b * b))]

Min(a, b) == IF a <= b THEN a ELSE b

\* num of line 937
PearsonNum(x, y) ==
  LET n == Min(Len(x), Len(y))
      s == Sums(x, y, n)
  IN Fl(Fl(n * s.sumXY) - Fl(s.sumX * s.sumY))

\* the argument of Math.sqrt in line 938
PearsonDen2(x, y) ==
  LET n == Min(Len(x), Len(y))
      s == Sums(x, y, n)
  IN Fl(Fl(Fl(n * s.sumX2) - Fl(s.sumX * s.sumX))
        * Fl(Fl(n * s.sumY2) - Fl(s.sumY * s.sumY)))

PearsonNaN == [nan |-> TRUE, num |-> 0, den2 |-> 0]

\* line 927
PearsonTooShort ==
  /\ ~done
  /\ Min(Len(args.x), Len(args.y)) < 2
  /\ done' = TRUE
  /\ ret' = PearsonNaN
  /\ UNCHANGED <<args, histVars, ledgerVars, reportVars>>

\* line 939 with den === 0, or den and the quotient NaN under a negative root
PearsonUndefined ==
  /\ ~done
  /\ Min(Len(args.x), Len(args.y)) >= 2
  /\ PearsonDen2(args.x, args.y) <= 0
  /\ done' = TRUE
  /\ ret' = PearsonNaN
  /\ UNCHANGED <<args, histVars, ledgerVars, reportVars>>

\* line 939: num / den
PearsonQuotient ==
  /\ ~done
  /\ Min(Len(args.x), Len(args.y)) >= 2
  /\ PearsonDen2(args.x, args.y) > 0
  /\ done' = TRUE
  /\ ret' = [nan |-> FALSE, num |-> PearsonNum(args.x, args.y),
             den2 |-> PearsonDen2(args.x, args.y)]
  /\ UNCHANGED <<args, histVars, ledgerVars, reportVars>>

PearsonNext == PearsonTooShort \/ PearsonUndefined \/ PearsonQuotient

PearsonInit ==
  /\ StoresInit
  /\ hist = <<Row(FirstToday - 1, "A", 100)>>
  /\ args \in [x : PearsonSeries, y : PearsonSeries]
  /\ ret = <<>>
  /\ done = FALSE

PearsonSpec == PearsonInit /\ [][PearsonNext]_vars

\* the pairs pearson_ reads hold one value only in the series
NoVariance(s, n) == \A i, j \in 1..n : s[i] = s[j]

\* C26: pearson_ returns NaN when it has fewer than two pairs or when either
\* series has no variance.
C26_NoVarianceIsNaN ==
  done =>
    LET n == Min(Len(args.x), Len(args.y))
    IN (n < 2 \/ NoVariance(args.x, n) \/ NoVariance(args.y, n)) => ret.nan

(* ------------------------------------------------------------------ *)
(* The snapshot (processSnapshot_): the analytics of activated tickers *)
(*                                                                     *)
(* ticker_constraints is the sequence of its entries in key order; an  *)
(* entry is [t, stage, start, lost]: start is entered_stage_date as a  *)
(* day number, or NoDate when it is missing or no YYYY-MM-DD text, and *)
(* lost is the number of hours by which the script time zone shortens  *)
(* the span between the local midnights of start and of the as-of date *)
(* (1 when the clocks are set forward in between, -1 when they are set *)
(* back).  A status is the text without its number, which is daysLeft. *)
(* ------------------------------------------------------------------ *)
ONBOARDING_DAYS == 14
REVIEW_DAYS == 30

GhostLastDay == ONBOARDING_DAYS + REVIEW_DAYS + 1

\* C.BASELINES
GhostBaselines == <<"B", "VTI">>

\* stores of the last two days
GhostStores ==
  LET all == << Row(GhostLastDay - 1, "A", 100), Row(GhostLastDay - 1, "B", 50),
                Row(GhostLastDay, "A", 110), Row(GhostLastDay, "B", 55) >>
  IN { LET pick == [k \in 1..Len(all) |-> [row |-> all[k], kept |-> c[k]]]
           kept == SelectSeq(pick, LAMBDA x : x.kept)
       IN [k \in 1..Len(kept) |-> kept[k].row] : c \in [1..Len(all) -> BOOLEAN] }

GhostHoldings == <<[t |-> "A", qty |-> 2], [t |-> "b", qty |-> 3]>>

\* policies: the entry of "A" with any start date, the entry of "B" without a
\* date or with a date twenty days back
GhostPolicies ==
  LET entriesA ==
        {[t |-> "A", stage |-> "activated", start |-> d, lost |-> h] :
           d \in {NoDate} \cup 0..GhostLastDay, h \in {-1, 0, 1}}
        \cup {[t |-> "A", stage |-> "inducted", start |-> 0, lost |-> 0]}
      entriesB ==
        {[t |-> "B", stage |-> "activated", start |-> d, lost |-> 0] :
           d \in {NoDate, GhostLastDay - 20}}
        \cup {[t |-> "B", stage |-> "inducted", start |-> 0, lost |-> 0]}
  IN {<<a, b>> : a \in entriesA, b \in entriesB}

\* diffDaysYMD_(laterYMD, earlierYMD), null being NA: the difference of the
\* two local midnights in hours, divided by 24 and floored
diffDaysYMD_(laterYMD, earlierYMD, lost) ==
  IF ~IsYMD(laterYMD) \/ ~IsYMD(earlierYMD) THEN NA
  ELSE IF laterYMD = earlierYMD THEN 0
  ELSE IF laterYMD > earlierYMD THEN (24 * (laterYMD - earlierYMD) - lost) \div 24
  ELSE (lost - 24 * (earlierYMD - laterYMD)) \div 24

\* mutant: a day count of null is compared like a number
ReviewStatus_NoNullCheck(daysActive) ==
  IF daysActive = NA \/ daysActive < ONBOARDING_DAYS
  THEN [status |-> "ONBOARDING", daysLeft |-> NA]
  ELSE IF REVIEW_DAYS - daysActive < 0 THEN [status |-> "REVIEW DUE", daysLeft |-> NA]
  ELSE [status |-> "REVIEW IN", daysLeft |-> REVIEW_DAYS - daysActive]

\* status of lines 389-396
ReviewStatus(daysActive) ==
  IF daysActive = NA THEN [status |-> "BAD POLICY DATE", daysLeft |-> NA]
  ELSE IF daysActive < ONBOARDING_DAYS THEN [status |-> "ONBOARDING", daysLeft |-> NA]
  ELSE IF REVIEW_DAYS - daysActive < 0 THEN [status |-> "REVIEW DUE", daysLeft |-> NA]
  ELSE [status |-> "REVIEW IN", daysLeft |-> REVIEW_DAYS - daysActive]

\* baselineResults of lines 384-387: one result for each of the first n
\* baselines
RECURSIVE BaselineResults(_, _, _, _)
BaselineResults(rows, T, startStr, n) ==
  IF n = 0 THEN {<<>>}
  ELSE {Append(rs, r) :
          rs \in BaselineResults(rows, T, startStr, n - 1),
          r \in calculateAlphaAndCorrVsBenchmark_(rows, T, GhostBaselines[n], startStr)}

\* the objects lines 377-405 push on ghosts
RECURSIVE Ghosts(_, _, _)
Ghosts(rows, asOfDate, tc) ==
  IF tc = <<>> THEN {<<>>}
  ELSE LET e == Head(tc)
           review == ReviewStatus(diffDaysYMD_(asOfDate, e.start, e.lost))
       IN IF e.stage # "activated" THEN Ghosts(rows, asOfDate, Tail(tc))
          ELSE {<<[ticker |-> Upper(e.t), policyStart |-> e.start,
                   asOfDate |-> asOfDate, status |-> review.status,
                   daysLeft |-> review.daysLeft, baselines |-> bl]>> \o rest :
                  bl \in BaselineResults(rows, Upper(e.t), e.start, Len(GhostBaselines)),
                  rest \in Ghosts(rows, asOfDate, Tail(tc))}

\* what processSnapshot_ can return for a store, a holdings file and a policy
Snapshots(rows, holdings, tc) ==
  IF AllDates(rows) = {}
  THEN {[threw |-> TRUE, asOfDate |-> NoDate, totalVal |-> 0, ghosts |-> <<>>]}
  ELSE {[threw |-> FALSE, asOfDate |-> AsOfDate(rows),
         totalVal |-> TotalVal(rows, AsOfDate(rows), [x \in {} |-> 0], holdings),
         ghosts |-> g] : g \in Ghosts(rows, AsOfDate(rows), tc)}

\* one call of processSnapshot_ that throws, or returns n ghosts
GhostCall(threw, n) ==
  /\ ~done
  /\ done' = TRUE
  /\ ret' \in Snapshots(args.rows, args.holdings, args.tc)
  /\ ret'.threw = threw
  /\ Len(ret'.ghosts) = n
  /\ UNCHANGED <<args, histVars, ledgerVars, reportVars>>

\* line 348
GhostThrows == GhostCall(TRUE, 0)

\* no ticker is activated
GhostNone == GhostCall(FALSE, 0)

\* lines 377-405 for one and for two activated tickers
GhostOne == GhostCall(FALSE, 1)
GhostTwo == GhostCall(FALSE, 2)

GhostNext == GhostThrows \/ GhostNone \/ GhostOne \/ GhostTwo

GhostInit ==
  /\ StoresInit
  /\ hist = <<Row(FirstToday - 1, "A", 100)>>
  /\ args \in [rows : GhostStores, holdings : {GhostHoldings}, tc : GhostPolicies]
  /\ ret = <<>>
  /\ done = FALSE

GhostSpec == GhostInit /\ [][GhostNext]_vars

\* the state the claim assigns to a number of days
ClaimedState(daysActive) ==
  IF daysActive < 14 THEN "ONBOARDING"
  ELSE IF daysActive > REVIEW_DAYS THEN "REVIEW DUE"
  ELSE "REVIEW IN"

\* C27: an activated ticker with a valid entered_stage_date is classified by
\* daysActive = as-of date minus entered_stage_date: onboarding below 14 days,
\* review due above the review window, else review in (window - daysActive)
\* days.
C27_ReviewStateByDayCount ==
  (done /\ ~ret.threw) =>
    \A i \in 1..Len(ret.ghosts) :
      LET g == ret.ghosts[i]
          daysActive == g.asOfDate - g.policyStart
      IN IsYMD(g.policyStart) =>
           /\ g.status = ClaimedState(daysActive)
           /\ g.status = "REVIEW IN" => g.daysLeft = REVIEW_DAYS - daysActive

\* the entry is activated and its entered_stage_date is missing or no date
BadDateEntry(e) == e.stage = "activated" /\ ~IsYMD(e.start)

\* C28: an activated ticker without a valid entered_stage_date gets the
\* bad-date status and BAD_DATE for every baseline; the snapshot does not
\* throw for it, and its portfolio value and the analytics of the other
\* tickers are those of the policy without that ticker.
C28_BadDateIsIsolated ==
  done =>
    LET others == SelectSeq(args.tc, LAMBDA e : ~BadDateEntry(e))
        rest == [ret EXCEPT !.ghosts =
                   SelectSeq(ret.ghosts, LAMBDA g : g.status # "BAD POLICY DATE")]
    IN /\ rest \in Snapshots(args.rows, args.holdings, others)
       /\ ~ret.threw =>
            \A k \in 1..Len(args.tc) :
              BadDateEntry(args.tc[k]) =>
                \E i \in 1..Len(ret.ghosts) :
                  /\ ret.ghosts[i].ticker = Upper(args.tc[k].t)
                  /\ ret.ghosts[i].status = "BAD POLICY DATE"
                  /\ \A b \in 1..Len(GhostBaselines) :
                       ret.ghosts[i].baselines[b].err = "BAD_DATE"

\* the first ticker has no date, the second one has its alpha, and the
\* portfolio is valued
C28_Witness ==
  /\ done /\ ~ret.threw
  /\ BadDateEntry(args.tc[1])
  /\ Len(ret.ghosts) = 2
  /\ ret.ghosts[1].status = "BAD POLICY DATE"
  /\ ret.ghosts[1].baselines[2].err = "BAD_DATE"
  /\ ret.ghosts[2].status = "REVIEW IN"
  /\ ret.ghosts[2].baselines[1].ok
  /\ ret.totalVal = 2 * 110 + 3 * 55

(* ------------------------------------------------------------------ *)
(* The required tickers (runDailyRoutine lines 96-103)                 *)
(*                                                                     *)
(* A name is the text found in the file: "" is an empty text and " "   *)
(* a blank one.  An absent corr_anchor_ticker or benchmark_proxy is    *)
(* the empty text, which the code treats the same way.                 *)
(* ------------------------------------------------------------------ *)

\* String(t).trim().toUpperCase()
TrimUpper(s) == IF s = " " THEN "" ELSE Upper(s)

\* state.inventory of the tracker
Inventories ==
  { <<>>, <<"A">>, <<"a", "B">>, <<"", "B">>, <<" ", "a">>, <<"VTI", "A">> }

\* reporting_baselines.active_benchmarks and corr_anchor_ticker
ActiveBenchmarks == { <<>>, <<"VTI">>, <<" ", "b">> }
CorrAnchors == {"", "B"}

\* ticker_constraints: the key, lifecycle.stage and lifecycle.benchmark_proxy
RequiredPolicies ==
  { <<>>,
    <<[t |-> "A", stage |-> "activated", proxy |-> ""]>>,
    <<[t |-> "a", stage |-> "inducted", proxy |-> "B"]>>,
    <<[t |-> "A", stage |-> "activated", proxy |-> "b"],
      [t |-> "QQQ", stage |-> "activated", proxy |-> ""]>>,
    <<[t |-> " ", stage |-> "activated", proxy |-> " "]>> }

\* C.BASELINES: assertConfig_ (line 146) wants an array that is not empty
BaselineConfigs == { <<"VTI">>, <<"b", "VTI">>, <<"VTI", "">>, <<" ">> }

Names(seq) == {TrimUpper(seq[i]) : i \in 1..Len(seq)}

\* normalizeInventory_(state): empty names are filtered out
normalizeInventory_(inventory) == {T \in Names(inventory) : T # ""}

\* getPolicyRequiredTickers_(policy): line 171 deletes the empty name
getPolicyRequiredTickers_(benchmarks, anchor, tc) ==
  LET activated == {i \in 1..Len(tc) : tc[i].stage = "activated"}
      set == Names(benchmarks)
             \cup (IF anchor # "" THEN {TrimUpper(anchor)} ELSE {})
             \cup {TrimUpper(tc[i].t) : i \in activated}
             \cup {TrimUpper(tc[i].proxy) : i \in {j \in activated : tc[j].proxy # ""}}
  IN {T \in set : T # ""}

\* policyRequired after line 100 has added the baselines
PolicyRequired(benchmarks, anchor, tc, baselines) ==
  getPolicyRequiredTickers_(benchmarks, anchor, tc) \cup Names(baselines)

\* lines 96-107: requiredSet, and whether the audit alert is raised
RequiredCall(audit) ==
  LET trackerTickers == normalizeInventory_(args.inventory)
      policyRequired == PolicyRequired(args.benchmarks, args.anchor, args.tc,
                                       args.baselines)
  IN /\ ~done
     /\ audit = (policyRequired \ trackerTickers # {})
     /\ done' = TRUE
     /\ ret' = [requiredSet |-> trackerTickers \cup policyRequired, audit |-> audit]
     /\ UNCHANGED <<args, histVars, ledgerVars, reportVars>>

RequiredNext == RequiredCall(TRUE) \/ RequiredCall(FALSE)

RequiredInit ==
  /\ StoresInit
  /\ hist = <<Row(FirstToday - 1, "A", 100)>>
  /\ args \in [inventory : Inventories, benchmarks : ActiveBenchmarks,
               anchor : CorrAnchors, tc : RequiredPolicies,
               baselines : BaselineConfigs]
  /\ ret = <<>>
  /\ done = FALSE

RequiredSpec == RequiredInit /\ [][RequiredNext]_vars

\* the upper-cased names the claim lists
ClaimedNames ==
  Names(args.inventory) \cup Names(args.benchmarks) \cup {TrimUpper(args.anchor)}
  \cup {TrimUpper(args.tc[i].t) : i \in {j \in 1..Len(args.tc) :
                                            args.tc[j].stage = "activated"}}
  \cup {TrimUpper(args.tc[i].proxy) : i \in {j \in 1..Len(args.tc) :
                                                args.tc[j].stage = "activated"}}
  \cup Names(args.baselines)

\* C29: the required set is the union of the tracker tickers, the tickers the
\* policy mandates and the configured baselines, upper-cased and without the
\* empty name.
C29_RequiredSetIsUnion ==
  done => ret.requiredSet = ClaimedNames \ {""}

(* ------------------------------------------------------------------ *)
(* The vNext policy contract (VnextContract.js)                        *)
(*                                                                     *)
(* A policy is a record of what the validator reads: whether the JSON  *)
(* is an object, which top-level blocks it has, the taxonomy, and the  *)
(* entries of assets.tickers in key order.  A weight map is known by   *)
(* its state: "ok", "absent", "empty" or "badsum".  An error is a      *)
(* record of its kind and its subject.  A TypeError raised by the      *)
(* script is one of the ways a call can end.                           *)
(* ------------------------------------------------------------------ *)

\* policy.taxonomy: absent, without sleeves, or with sleeves whose level1 and
\* level2 may be absent; level2 maps a sleeve to its parent_l1 ("" if missing)
Taxonomies ==
  LET sleeves(hasL1, l1, hasL2, l2) ==
        [kind |-> "sleeves", hasLevel1 |-> hasL1, level1 |-> l1,
         hasLevel2 |-> hasL2, level2 |-> l2]
  IN { [kind |-> "absent", hasLevel1 |-> FALSE, level1 |-> {},
        hasLevel2 |-> FALSE, level2 |-> <<>>],
       [kind |-> "noSleeves", hasLevel1 |-> FALSE, level1 |-> {},
        hasLevel2 |-> FALSE, level2 |-> <<>>],
       sleeves(TRUE, {"equities"}, TRUE, <<[l2 |-> "crypto", parent |-> "equities"]>>),
       sleeves(FALSE, {}, TRUE, <<[l2 |-> "crypto", parent |-> "equities"]>>),
       sleeves(TRUE, {"equities"}, FALSE, <<>>),
       sleeves(TRUE, {"equities"}, TRUE, <<>>),
       sleeves(TRUE, {"equities"}, TRUE, <<[l2 |-> "crypto", parent |-> "bonds"]>>),
       sleeves(TRUE, {"equities"}, TRUE, <<[l2 |-> "crypto", parent |-> ""]>>) }

\* entries of policy.assets.tickers
TickerEntries ==
  { [key |-> "A", stage |-> "inducted", dateOk |-> TRUE, exposure |-> "ok", signal |-> "ok"],
    [key |-> "B", stage |-> "activated", dateOk |-> TRUE, exposure |-> "ok", signal |-> "ok"],
    [key |-> "B", stage |-> "overlay", dateOk |-> FALSE, exposure |-> "ok", signal |-> "ok"],
    [key |-> "A", stage |-> "reference", dateOk |-> FALSE, exposure |-> "absent", signal |-> "absent"],
    [key |-> "a", stage |-> "disabled", dateOk |-> FALSE, exposure |-> "absent", signal |-> "absent"],
    [key |-> "A", stage |-> "", dateOk |-> TRUE, exposure |-> "absent", signal |-> "absent"],
    [key |-> "B", stage |-> "retired", dateOk |-> TRUE, exposure |-> "ok", signal |-> "badsum"],
    [key |-> "A", stage |-> "activated", dateOk |-> TRUE, exposure |-> "empty", signal |-> "absent"] }

\* assets.tickers: objects of up to two keys, the keys being different
TickerObjects ==
  {<<>>} \cup {<<e>> : e \in TickerEntries}
  \cup {p \in TickerEntries \X TickerEntries : p[1].key # p[2].key}

Policies ==
  [obj : {TRUE}, meta : BOOLEAN, hasTickers : {TRUE}, tickers : TickerObjects,
   taxonomy : Taxonomies, formulasOk : BOOLEAN]
  \cup [obj : BOOLEAN, meta : {TRUE}, hasTickers : {FALSE}, tickers : {<<>>},
        taxonomy : Taxonomies, formulasOk : {TRUE}]

\* the tracker: not given, or its universe of upper-cased tickers
Trackers ==
  { [given |-> FALSE, universe |-> {}],
    [given |-> TRUE, universe |-> {"A", "B"}],
    [given |-> TRUE, universe |-> {"B", "VTI"}] }

Err(kind, subject) == [kind |-> kind, subject |-> subject]

\* errors.push(e) under a condition
PushIf(cond, errors, e) == IF cond THEN Append(errors, e) ELSE errors

\* mwsNormTicker_ of the keys (lines 110 and 246)
NormKeys(tickers) == [i \in 1..Len(tickers) |-> Upper(tickers[i].key)]

\* tickers[T] || tickers[T.toLowerCase()] || null: the index of the entry, 0
\* for null
Lookup(tickers, T) ==
  LET exact == {i \in 1..Len(tickers) : tickers[i].key = T}
      lower == {i \in 1..Len(tickers) : tickers[i].key # T /\ Upper(tickers[i].key) = T}
  IN IF exact # {} THEN CHOOSE i \in exact : TRUE
     ELSE IF lower # {} THEN CHOOSE i \in lower : TRUE
     ELSE 0

\* lines 98-106: the errors of the required blocks; line 103 reads
\* policy.taxonomy.sleeves.level1 of a taxonomy without sleeves
ShapeErrors(policy) ==
  LET tx == policy.taxonomy
      e1 == PushIf(~policy.meta, <<>>, Err("missing", "meta"))
      e2 == PushIf(~policy.hasTickers, e1, Err("missing", "assets.tickers"))
      e3 == PushIf(tx.kind # "sleeves", e2, Err("missing", "sleeves"))
      e4 == PushIf(tx.kind = "absent" \/ ~tx.hasLevel1, e3, Err("missing", "level1"))
  IN PushIf(tx.kind = "absent" \/ ~tx.hasLevel2, e4, Err("missing", "level2"))

\* lines 120-130: the taxonomy
TaxonomyErrors(tx, errors) ==
  LET e1 == PushIf(tx.level1 = {}, errors, Err("empty", "level1"))
      e2 == PushIf(tx.level2 = <<>>, e1, Err("empty", "level2"))
      bad == SelectSeq(tx.level2, LAMBDA n : n.parent = "" \/ n.parent \notin tx.level1)
  IN e2 \o [i \in 1..Len(bad) |-> Err("parent_l1", bad[i].l2)]

\* the stages of allowedStages (line 133) and of mustHaveEnteredDate (136)
AllowedStages == {"inducted", "activated", "overlay", "reference", "disabled"}
MustHaveEnteredDate == {"inducted", "activated", "overlay"}

\* lines 140-160 for one ticker
LifecycleErrors(tickers, T) ==
  LET i == Lookup(tickers, T)
      obj == tickers[i]
      e1 == PushIf(obj.stage = "", <<>>, Err("stage missing", T))
      e2 == PushIf(obj.stage # "" /\ obj.stage \notin AllowedStages, e1,
                   Err("stage invalid", T))
      e3 == PushIf(obj.stage \in MustHaveEnteredDate /\ ~obj.dateOk, e2,
                   Err("entered_stage_date", T))
      e4 == PushIf(obj.stage \in MustHaveEnteredDate /\ obj.exposure = "absent", e3,
                   Err("exposure_l2 missing", T))
  IN IF i = 0 THEN <<>>
     ELSE PushIf(obj.stage \in MustHaveEnteredDate /\ obj.signal = "absent", e4,
                 Err("signal_l2 missing", T))

\* mwsValidateWeightMap_ (lines 219-240) on a map in the given state
WeightMapErrors(label, T, state) ==
  IF state = "empty" THEN <<Err(label \o " empty", T)>>
  ELSE IF state = "badsum" THEN <<Err(label \o " sum", T)>>
  ELSE <<>>

\* lines 163-181 for one ticker
MappingErrors(tickers, T) ==
  LET i == Lookup(tickers, T)
  IN IF i = 0 THEN <<>>
     ELSE (IF tickers[i].exposure # "absent"
           THEN WeightMapErrors("exposure_l2", T, tickers[i].exposure) ELSE <<>>)
          \o (IF tickers[i].signal # "absent"
              THEN WeightMapErrors("signal_l2", T, tickers[i].signal) ELSE <<>>)

RECURSIVE ForEach(_, _, _)
ForEach(Op(_, _), tickers, tList) ==
  IF tList = <<>> THEN <<>>
  ELSE Op(tickers, Head(tList)) \o ForEach(Op, tickers, Tail(tList))

\* lines 191-209: the policy is not a subset of the tracker universe
TrackerErrors(tickers, tracker) ==
  LET tList == NormKeys(tickers)
  IN IF tracker.given /\ \E i \in 1..Len(tList) : tList[i] \notin tracker.universe
     THEN <<Err("not in tracker", "policy")>>
     ELSE <<>>

\* mutant: the validator reports ok whatever it has found
ValidatorOk_Always(errors) == TRUE

\* line 215: var ok = errors.length === 0
ValidatorOk(errors) == Len(errors) = 0

\* mwsValidatePolicyVNext_(policy, tracker): what it returns, or the TypeError
\* of line 103
mwsValidatePolicyVNext_(policy, tracker) ==
  IF ~policy.obj
  THEN [threw |-> FALSE, ok |-> FALSE, errors |-> <<Err("invalid", "policy")>>]
  ELSE IF policy.taxonomy.kind = "noSleeves"
  THEN [threw |-> TRUE, ok |-> FALSE, errors |-> <<>>]
  ELSE IF ShapeErrors(policy) # <<>>
  THEN [threw |-> FALSE, ok |-> FALSE, errors |-> ShapeErrors(policy)]
  ELSE LET tList == NormKeys(policy.tickers)
           errors ==
             TaxonomyErrors(policy.taxonomy, <<>>)
             \o ForEach(LifecycleErrors, policy.tickers, tList)
             \o ForEach(MappingErrors, policy.tickers, tList)
             \o (IF policy.formulasOk THEN <<>> ELSE <<Err("formulas", "denominators")>>)
             \o TrackerErrors(policy.tickers, tracker)
       IN [threw |-> FALSE, ok |-> ValidatorOk(errors), errors |-> errors]

RECURSIVE InsertTicker(_, _)
InsertTicker(s, T) ==
  IF s = <<>> THEN <<T>>
  ELSE IF TickerRank(T) < TickerRank(Head(s)) THEN <<T>> \o s
  ELSE <<Head(s)>> \o InsertTicker(Tail(s), T)

RECURSIVE SortKeys(_)
SortKeys(s) == IF s = <<>> THEN <<>> ELSE InsertTicker(SortKeys(Tail(s)), Head(s))

\* the stage line 253 reads for T: tickers[T] must be an entry
StageOf(tickers, T) ==
  tickers[CHOOSE i \in 1..Len(tickers) : tickers[i].key = T].stage

NoViews ==
  [populated |-> FALSE, all |-> <<>>, momentumEligible |-> <<>>,
   overlays |-> <<>>, references |-> <<>>]

\* mwsProjectPolicyViewsVNext_(policy, tracker): the views, or the TypeError
\* of line 253 for a key that is not in upper case
mwsProjectPolicyViewsVNext_(policy) ==
  LET tickers == policy.tickers
      tList == SortKeys(NormKeys(tickers))
      staged(S) == SelectSeq(tList, LAMBDA T : StageOf(tickers, T) \in S)
  IN IF \E i \in 1..Len(tList) : \A j \in 1..Len(tickers) : tickers[j].key # tList[i]
     THEN [threw |-> TRUE, views |-> NoViews]
     ELSE [threw |-> FALSE,
           views |-> [populated |-> TRUE, all |-> tList,
                      momentumEligible |-> staged({"inducted"}) \o staged({"activated"}),
                      overlays |-> staged({"overlay"}),
                      references |-> staged({"reference"})]]

\* how mwsLoadValidateAndProject(policyFileId, trackerFileId, opts) ends on
\* files that load: "return" with the bundle, "hardfail" with the error of
\* line 58, or "TypeError"
mwsLoadValidateAndProject(policy, tracker, hardFail) ==
  LET vr == mwsValidatePolicyVNext_(policy, tracker)
      pr == IF ~vr.threw /\ vr.ok THEN mwsProjectPolicyViewsVNext_(policy)
            ELSE [threw |-> FALSE, views |-> NoViews]
      bundle == [ok |-> vr.ok, errors |-> vr.errors, derived |-> pr.views]
  IN IF vr.threw \/ pr.threw
     THEN [outcome |-> "TypeError", ok |-> FALSE, errors |-> <<>>, derived |-> NoViews]
     ELSE IF hardFail /\ ~bundle.ok
     THEN [outcome |-> "hardfail", ok |-> bundle.ok, errors |-> bundle.errors,
           derived |-> bundle.derived]
     ELSE [outcome |-> "return", ok |-> bundle.ok, errors |-> bundle.errors,
           derived |-> bundle.derived]

\* one call that ends in the given way
ContractCall(how) ==
  /\ ~done
  /\ done' = TRUE
  /\ ret' = mwsLoadValidateAndProject(args.policy, args.tracker, args.hardFail)
  /\ ret'.outcome = how
  /\ UNCHANGED <<args, histVars, ledgerVars, reportVars>>

ContractReturns == ContractCall("return")
ContractHardFails == ContractCall("hardfail")
ContractTypeError == ContractCall("TypeError")

ContractNext == ContractReturns \/ ContractHardFails \/ ContractTypeError

ContractInit ==
  /\ StoresInit
  /\ hist = <<Row(FirstToday - 1, "A", 100)>>
  /\ args \in [policy : Policies, tracker : Trackers, hardFail : BOOLEAN]
  /\ ret = <<>>
  /\ done = FALSE

ContractSpec == ContractInit /\ [][ContractNext]_vars

\* C30: a bundle that mwsLoadValidateAndProject returns has ok exactly when
\* its errors list is empty and has derived views only when ok; the hard-fail
\* error is raised exactly when hardFail is set and the validation result is
\* not ok.
C30_BundleContract ==
  done =>
    /\ ret.outcome = "return" =>
         /\ ret.ok <=> ret.errors = <<>>
         /\ ret.derived.populated => ret.ok
    /\ ret.outcome = "hardfail" <=>
         /\ args.hardFail
         /\ ~mwsValidatePolicyVNext_(args.policy, args.tracker).threw
         /\ mwsValidatePolicyVNext_(args.policy, args.tracker).errors # <<>>

\* a policy with a ticker of an invalid stage, checked with hardFail
C30_Witness ==
  /\ done
  /\ args.hardFail
  /\ ret.outcome = "hardfail"
  /\ \E i \in 1..Len(ret.errors) : ret.errors[i].kind = "stage invalid"

\* the tickers of a view
InView(view) == {view[i] : i \in 1..Len(view)}

\* C31: the momentumEligible view of mwsProjectPolicyViewsVNext_ contains
\* every ticker of stage inducted and no ticker of stage activated, overlay,
\* reference or disabled.
C31_OnlyInductedEligible ==
  (done /\ ret.outcome = "return" /\ ret.derived.populated) =>
    \A i \in 1..Len(args.policy.tickers) :
      args.policy.tickers[i].key \in InView(ret.derived.momentumEligible)
        <=> args.policy.tickers[i].stage = "inducted"

(* ------------------------------------------------------------------ *)
(* The chunk range and the cursor of a visited ticker                  *)
(* ------------------------------------------------------------------ *)

\* the earliest date store s has for ticker T (NoDate when it has none)
EarliestStored(s, T) ==
  IF DatesOf(s, T) = {} THEN NoDate
  ELSE CHOOSE d \in DatesOf(s, T) : \A e \in DatesOf(s, T) : d <= e

\* the later of two days
Later(a, b) == IF a >= b THEN a ELSE b

\* the ticker a loop iteration visits
Visited == SortedTickers(required)[idx]

\* the end of the range for the visited ticker: the cursor the iteration
\* finds, else the day before the earliest stored date, else the day before
\* today
ExpectedEnd ==
  IF cursor[Visited] # NoDate THEN cursor[Visited]
  ELSE IF EarliestStored(hist0, Visited) # NoDate
       THEN EarliestStored(hist0, Visited) - 1
  ELSE today - 1

\* C32: every range request a loop iteration issues is [chunkStart, chunkEnd]
\* with chunkEnd the persisted cursor when there is one, else the day before
\* the earliest stored date of the ticker when it has data, else the day before
\* today, and chunkStart the later of requiredStart and
\* chunkEnd - chunkSize + 1.
C32_RequestedRange ==
  [][(pc = "backfill" /\ idx' # idx) =>
       \A r \in IssuedFor(Visited) :
         /\ r.ce = ExpectedEnd
         /\ r.cs = Later(today - MIN_BACKFILL_DAYS, r.ce - CHUNK_DAYS + 1)]_vars

\* an invocation issued a request that ends at the cursor it found although
\* the ticker's earliest stored date is more than a day later, one for a
\* ticker with data and no cursor, and (in another invocation or for another
\* ticker) one for a ticker without data or cursor
C32_Witness ==
  /\ \E r \in requests :
       /\ cursor0[r.t] # NoDate
       /\ r.ce = cursor0[r.t]
       /\ EarliestStored(hist0, r.t) # NoDate
       /\ EarliestStored(hist0, r.t) - 1 # r.ce
  /\ \E r \in requests :
       /\ cursor0[r.t] = NoDate
       /\ EarliestStored(hist0, r.t) = NoDate
       /\ r.ce = today - 1

\* the loop iteration reaches the cursor of its ticker: the budget is not
\* exceeded and the ticker has no row dated at or before requiredStart
VisitsCursor ==
  /\ pc = "backfill"
  /\ idx' # idx
  /\ elapsed' <= RUNTIME_BUDGET_MS
  /\ ~HasRowAtOrBefore(hist0, Visited, today - MIN_BACKFILL_DAYS)

\* C33: a loop iteration that reaches the cursor of its ticker deletes the
\* cursor and issues no range request when chunkEnd is before requiredStart;
\* otherwise it issues the request and leaves the cursor at chunkStart - 1 when
\* that day is on or after requiredStart, and deleted when it is before.
C33_CursorPostState ==
  [][VisitsCursor =>
       IF ExpectedEnd < today - MIN_BACKFILL_DAYS
       THEN cursor'[Visited] = NoDate /\ requests' = requests
       ELSE /\ IssuedFor(Visited) # {}
            /\ \A r \in IssuedFor(Visited) :
                 cursor'[Visited] = IF r.cs - 1 >= today - MIN_BACKFILL_DAYS
                                    THEN r.cs - 1 ELSE NoDate]_vars

\* an invocation deleted a cursor that lay before requiredStart without a
\* request, left the cursor of a request on requiredStart, and deleted the
\* cursor of a request that began at requiredStart
C33_Witness ==
  /\ pc = "backfill"
  /\ \E t \in required :
       /\ cursor0[t] # NoDate
       /\ cursor0[t] < today - MIN_BACKFILL_DAYS
       /\ cursor[t] = NoDate
       /\ \A r \in requests : r.t # t
  /\ \E r \in requests :
       \/ cursor[r.t] = today - MIN_BACKFILL_DAYS /\ r.cs - 1 = cursor[r.t]
       \/ cursor[r.t] = NoDate /\ r.cs = today - MIN_BACKFILL_DAYS

\* the requests of the invocation lie in [requiredStart, today - 1], and a
\* cursor the step persists is a date before today
RangesAndCursorsBeforeToday ==
  /\ \A r \in requests' :
       /\ today' - MIN_BACKFILL_DAYS <= r.cs
       /\ r.cs <= r.ce
       /\ r.ce <= today' - 1
  /\ \A t \in Tickers :
       (cursor'[t] # cursor[t] /\ cursor'[t] # NoDate) =>
         IsYMD(cursor'[t]) /\ cursor'[t] < today'

\* the store the invocation read holds no row dated after its today
NoRowAfterToday == \A i \in 1..Len(hist0') : hist0'[i].d <= today'

\* C34 (as stated): from an empty cursor store, with today never decreasing,
\* every range request satisfies requiredStart <= chunkStart <= chunkEnd <=
\* today - 1 and every cursor an invocation persists is a date before its
\* today.
C34_RangeWithinWindow == [][RangesAndCursorsBeforeToday]_vars

\* C34 (amended): the same, for invocations that read a store without a row
\* dated after their today.
C34_RangeWithinWindowOfPastStore ==
  [][NoRowAfterToday => RangesAndCursorsBeforeToday]_vars

\* on the later day an invocation that read a store without later rows
\* requested the range that ends the day before today for a ticker without
\* data and persisted the boundary below it
C34_Witness ==
  /\ today = MaxToday
  /\ \A i \in 1..Len(hist0) : hist0[i].d <= today
  /\ \E r \in requests :
       /\ r.ce = today - 1
       /\ r.cs > today - MIN_BACKFILL_DAYS
       /\ EarliestStored(hist0, r.t) = NoDate
       /\ cursor[r.t] = r.cs - 1

\* C35: after a completed invocation a required ticker whose earliest stored
\* date is at or before requiredStart has no persisted cursor.
C35_CompleteTickerHasNoCursor ==
  Completed =>
    \A t \in required :
      HasRowAtOrBefore(hist, t, today - MIN_BACKFILL_DAYS) => cursor[t] = NoDate

\* C36: with today fixed, once an invocation has deleted the cursor of a
\* ticker because its backfill finished, no later invocation issues a range
\* request for the ticker or persists a cursor for it.
C36_CompletionIsAbsorbing ==
  [][\A t \in Tickers :
       (finished[t] /\ today' = today) =>
         IssuedFor(t) = {} /\ cursor'[t] = NoDate]_vars

(* ------------------------------------------------------------------ *)
(* The base row of the ledger                                          *)
(* ------------------------------------------------------------------ *)

\* the percentage cell of a value against the base value: N/A for a value
\* that is not a number above zero
Against(v, base) ==
  IF InvalidCell(v) THEN NA ELSE RoundDiv((v - base) * 10000, base)

\* row b is the base row of ledger l: the rows before it carry N/A, and the
\* cells of every row from b on are taken against the value and prices of b
IsBaseRow(l, b) ==
  /\ \A i \in 1..(b - 1) :
       /\ l[i].portPct = NA
       /\ \A k \in 1..Len(Benches) : l[i].pct[k] = NA
  /\ \A i \in b..Len(l) :
       /\ l[i].portPct = Against(l[i].pv, l[b].pv)
       /\ \A k \in 1..Len(Benches) : l[i].pct[k] = Against(l[i].px[k], l[b].px[k])

\* C37: after a call that returns, the base row is the row dated
\* chart_start_date when that is a valid date and the ledger has a row for it;
\* in every other case it is the first row, so that no row is N/A for lying
\* before the base.
C37_BaseRowSelection ==
  lout = "ok" =>
    \E b \in 1..Len(ledger) :
      /\ IF IsYMD(lcall.chartStart) /\ lcall.chartStart \in LedgerDates(ledger)
         THEN ledger[b].date = lcall.chartStart
         ELSE b = 1
      /\ IsBaseRow(ledger, b)

\* chart_start_date is a valid date without a row; the rows lie on both sides
\* of it, the first one is the base, and the row after chart_start_date
\* carries a percentage against it
C37_Witness ==
  /\ lout = "ok"
  /\ IsYMD(lcall.chartStart)
  /\ lcall.chartStart \notin LedgerDates(ledger)
  /\ Len(ledger) = 2
  /\ ledger[1].date < lcall.chartStart
  /\ ledger[2].date > lcall.chartStart
  /\ ledger[1].portPct = 0
  /\ ledger[2].portPct \notin {0, NA}

(* ------------------------------------------------------------------ *)
(* The ledger block of the snapshot                                    *)
(* ------------------------------------------------------------------ *)

\* the LOG alerts of the alerts array
LogAlerts == alerts \cap {"LOG: no active_benchmarks", "LOG: skipped", "LOG: base row invalid"}

\* the last run reached the ledger block of its snapshot
SnapshotReached == mail # "none" /\ args.reached

\* every active benchmark had a price above zero on the as-of date
AllBenchmarksPriced ==
  \A i \in 1..Len(args.px) : args.px[i] # NaN /\ args.px[i] > 0

\* C38: a snapshot whose policy lists no active benchmarks, or one of whose
\* benchmarks has no positive price on the as-of date, leaves the ledger as it
\* was and records a LOG alert, and the run goes on to the daily email; the
\* ledger is changed only by a snapshot whose benchmark prices are all
\* positive.
C38_LedgerSkippedWithoutPrices ==
  SnapshotReached =>
    /\ (args.benches = <<>> \/ ~AllBenchmarksPriced) =>
         /\ ledger = args.ledger
         /\ LogAlerts # {}
         /\ mail = "daily"
    /\ ledger # args.ledger => (args.benches # <<>> /\ AllBenchmarksPriced)

\* a run found a ledger with rows and a benchmark with a price below zero: the
\* rows are as they were, the alert is recorded and the daily email sent
C38_Witness ==
  /\ SnapshotReached
  /\ args.benches # <<>>
  /\ \E i \in 1..Len(args.px) : args.px[i] < 0 /\ args.px[i] # NaN
  /\ args.ledger # <<>>
  /\ ledger = args.ledger
  /\ "LOG: skipped" \in alerts
  /\ mail = "daily"

\* C39: without hardFail, a call on a policy that loads as a JSON object
\* returns its bundle: it raises neither in the validation nor in the
\* projection.
C39_NoRaiseWithoutHardFail ==
  (done /\ ~args.hardFail /\ args.policy.obj) => ret.outcome = "return"

====
